---- MODULE Spec2Model ----
(***************************************************************************)
(* Model of the escrow manager (src/lib/escrow.js) and of the stream       *)
(* provider (src/lib/stream.js) of lightning-agent.                        *)
(*                                                                         *)
(* The manager keeps a Map of escrow records and a Map of deadline timers. *)
(* create, fund, release and refund are async functions: each runs up to   *)
(* its `await wallet.xxx(...)`, is suspended there, and continues when the *)
(* wallet answers.  A suspended call is a record in one of the bags        *)
(* pendingCreate / pendingFund / pendingRelease / pendingRefund; the part  *)
(* of the function before the await is one action (Create, Fund, ...),     *)
(* the part after it another (CreateDone, FundDone, ...).  Everything      *)
(* between two awaits runs atomically, as on the JavaScript event loop.    *)
(* The wallet is an external collaborator: each of its answers is a        *)
(* nondeterministic choice (success with some value, or failure).          *)
(*                                                                         *)
(* Date.now() is the variable now, advanced by Tick; a deadline timer may  *)
(* fire once now has reached the deadline it was armed for.                *)
(*                                                                         *)
(* Pass-through fields of the record that no operation changes             *)
(* (description, clientPubkey, workerPubkey) are left out.                 *)
(*                                                                         *)
(* The stream provider keeps a Map of sessions.  One handleRequest call    *)
(* serves a session; it is followed from await to await as well, and the   *)
(* proof submissions (POST) run between its steps.                         *)
(***************************************************************************)
EXTENDS Integers, Sequences, FiniteSets, Bags, TLC

\* ---------------------------------------------------------------- bounds
MaxEscrows == 1
MaxTime == 2
MaxPending == 2
MaxTransitions == 3
MaxSnapshots == 2
MaxShared == 2
MaxSessions == 1
MaxTokens == 3
MaxSplits == 1
MaxChallenges == 2
MaxEvents == 3

\* ------------------------------------------------------ program constants
CREATED == "created"
FUNDED == "funded"
DELIVERED == "delivered"
RELEASED == "released"
REFUNDED == "refunded"
EXPIRED == "expired"
DISPUTED == "disputed"

State == {CREATED, FUNDED, DELIVERED, RELEASED, REFUNDED, EXPIRED, DISPUTED}

\* null / undefined for string-valued fields, and for timestamps
Null == "null"
NullAt == 0

defaultDeadlineMs == 3600000

\* ----------------------------------------------------------------- inputs
Ids == 1..MaxEscrows
AmountInputs == {-1, 0, 2}             \* 0 stands for a missing amountSats
DeadlineInputs == {0, 1, 2}              \* 0 stands for a missing deadlineMs
AddressInputs == {Null, "worker@x"}
InvoiceInputs == {Null, "lnbcworker"}
MetadataInputs == {FALSE}              \* TRUE: the caller passes its own object
RefundAddressInputs == {Null, "client@x"}
ReasonInputs == {Null, "no-show"}
RaisedByInputs == {"client"}
Preimages == {"pre1", "pre2"}

\* reference of the metadata object the caller passes in config.metadata
CallerMeta == 0

VARIABLES
    now,            \* Date.now()
    escrows,        \* the Map escrows: id -> record
    timers,         \* the Map timers: ids with an armed deadline timer
    metaObjs,       \* heap of metadata objects: reference -> object
    nextId,         \* number of ids handed out so far
    pendingCreate,  \* create calls suspended at await wallet.createInvoice
    pendingFund,    \* fund calls suspended at await wallet.waitForPayment
    pendingRelease, \* release calls suspended at await wallet.payInvoice/payAddress
    pendingRefund,  \* refund calls suspended at await wallet.payAddress
    stateChanges,   \* invocations of opts.onStateChange, in order
    ret,            \* what the last step did: call suspended, returned or threw
    snapshots,      \* the objects get() and list() handed to the caller
    provider,       \* createStreamProvider: the options of the closure
    sessions,       \* the Map sessions: session id -> session object
    handlers,       \* handleRequest calls: locals and position of each
    sent,           \* the SSE events written to each response, in order
    cleanups,       \* armed sessions.delete timers: session id -> due time
    client,         \* createStreamClient: one stream() call, its locals
    auth            \* createAuthServer: ttl, the Map challenges, verdicts given

vars == <<now, escrows, timers, metaObjs, nextId, pendingCreate, pendingFund,
          pendingRelease, pendingRefund, stateChanges, ret, snapshots,
          provider, sessions, handlers, sent, cleanups, client, auth>>

\* the state of the stream provider
streamVars == <<provider, sessions, handlers, sent, cleanups>>

\* what a step of the escrow manager never touches
beside == <<snapshots, streamVars, client, auth>>

pendings == <<pendingCreate, pendingFund, pendingRelease, pendingRefund>>

\* createStreamProvider(wallet, {}): the defaults of lines 58-62
DefaultOpts ==
    [satsPerBatch |-> 1, tokensPerBatch |-> 50, maxBatches |-> 100,
     paymentTimeoutMs |-> 30000, invoiceExpiryS |-> 120]

\* ---------------------------------------------------------------- helpers
InFlight ==
    BagCardinality(pendingCreate) + BagCardinality(pendingFund)
      + BagCardinality(pendingRelease) + BagCardinality(pendingRefund)

AddTo(bag, x) == bag (+) SetToBag({x})
RemoveFrom(bag, x) == bag (-) SetToBag({x})

CeilDiv(a, b) == IF a % b = 0 THEN a \div b ELSE (a \div b) + 1

\* ret: the step returned, threw, or made a wallet call and is suspended on
\* it; call is the wallet call the step made, reply the wallet answer it
\* used; phase tells the entry of a call from its continuation after await
Returned(op, id, reply) ==
    [op |-> op, id |-> id, phase |-> "call", kind |-> "return", err |-> Null,
     call |-> <<>>, reply |-> reply]
Threw(op, id, msg, reply) ==
    [op |-> op, id |-> id, phase |-> "call", kind |-> "throw", err |-> msg,
     call |-> <<>>, reply |-> reply]
Awaiting(op, id, call) ==
    [op |-> op, id |-> id, phase |-> "call", kind |-> "await", err |-> Null,
     call |-> <<call>>, reply |-> <<>>]
Resumed(r) == [r EXCEPT !.phase = "resume"]

\* transition() without the history.push
transition_NoHistory(e, newState, t) ==
    [e EXCEPT !.state = newState, !.updatedAt = t]

\* the state change of transition(): state, updatedAt and one history entry
transition(e, newState, t) ==
    [e EXCEPT !.state = newState,
              !.updatedAt = t,
              !.history = Append(e.history, [from |-> e.state, to |-> newState, at |-> t])]

\* the observer call of transition(): onStateChange(id, old, newState, e)
notify(log, id, old, newState) ==
    Append(log, [id |-> id, from |-> old, to |-> newState])

\* the calls of fund, deliver, release, refund and dispute are followed for
\* the first MaxTransitions state changes; the deadline timer always runs
CanGrow(id) == Len(stateChanges) < MaxTransitions
CanCallWallet == InFlight < MaxPending

\* ------------------------------------------------------------------- Init
InitEscrow ==
    /\ now = 1
    /\ escrows = <<>>
    /\ timers = {}
    /\ metaObjs = (CallerMeta :> <<>>)
    /\ nextId = 0
    /\ pendingCreate = EmptyBag
    /\ pendingFund = EmptyBag
    /\ pendingRelease = EmptyBag
    /\ pendingRefund = EmptyBag
    /\ stateChanges = <<>>
    /\ ret = Returned("createEscrowManager", 0, <<>>)
    /\ snapshots = <<>>

\* createStreamProvider(wallet, opts): no session yet
\* createStreamClient before stream() is called
NoCall ==
    [pc |-> "idle", autoPay |-> TRUE, maxSats |-> 0, budget |-> 0,
     spent |-> 0, sessionId |-> 0, pos |-> 0, yielded |-> <<>>,
     paying |-> <<>>, preimage |-> <<>>, paid |-> <<>>, err |-> Null,
     splits |-> 0, logged |-> {}, skipped |-> {}]

\* createAuthServer(opts) before any challenge
newAuthServer(ttl) == [ttl |-> ttl, challenges |-> <<>>, issued |-> 0, granted |-> <<>>]

\* auth.js line 32: the default of opts.challengeTtlMs
DefaultTtlMs == 300000

InitStream(opts) ==
    /\ client = NoCall
    /\ auth = newAuthServer(DefaultTtlMs)
    /\ provider = opts
    /\ provider = opts
    /\ sessions = <<>>
    /\ handlers = <<>>
    /\ sent = <<>>
    /\ cleanups = <<>>

Init == InitEscrow /\ InitStream(DefaultOpts)

\* ----------------------------------------------------------------- create
\* validation that only catches a missing amount
createInvalidAmount_MissingOnly(cfg) == cfg.amountSats = 0

createInvalidAmount(cfg) == cfg.amountSats = 0 \/ cfg.amountSats <= 0
createNoDestination(cfg) == cfg.workerAddress = Null /\ cfg.workerInvoice = Null

Configs ==
    [amountSats : AmountInputs, workerAddress : AddressInputs,
     workerInvoice : InvoiceInputs, deadlineMs : DeadlineInputs,
     metadata : MetadataInputs]

\* the configs the lifecycle specification creates escrows with
LifecycleConfigs == {cfg \in Configs : cfg.deadlineMs = 1}

durationOf(cfg) == IF cfg.deadlineMs = 0 THEN defaultDeadlineMs ELSE cfg.deadlineMs

\* create, with at most cap ids handed out
CreateUpTo(cfg, cap) ==
    IF createInvalidAmount(cfg)
    THEN /\ ret' = Threw("create", 0, "amountSats must be positive", <<>>)
         /\ UNCHANGED <<now, escrows, timers, metaObjs, nextId, pendings,
                        stateChanges>>
    ELSE IF createNoDestination(cfg)
    THEN /\ ret' = Threw("create", 0, "workerAddress or workerInvoice required", <<>>)
         /\ UNCHANGED <<now, escrows, timers, metaObjs, nextId, pendings,
                        stateChanges>>
    ELSE /\ nextId < cap
         /\ CanCallWallet
         /\ nextId' = nextId + 1
         /\ pendingCreate' = AddTo(pendingCreate,
                [id |-> nextId + 1, cfg |-> cfg, now |-> now,
                 deadlineMs |-> durationOf(cfg)])
         /\ ret' = Awaiting("create", nextId + 1,
                [method |-> "createInvoice", id |-> nextId + 1, target |-> Null, amountSats |-> cfg.amountSats, expiry |-> CeilDiv(durationOf(cfg), 1000)])
         /\ UNCHANGED <<now, escrows, timers, metaObjs, pendingFund,
                        pendingRelease, pendingRefund, stateChanges>>

Create(cfg) == CreateUpTo(cfg, MaxEscrows)

\* what wallet.createInvoice may resolve to for the call of escrow id: the
\* wallet's answer may lack payment_hash (res.result?.payment_hash is then
\* undefined, written <<>>)
InvoiceReplies(id) ==
    {[invoice |-> <<"lnbc", id>>, paymentHash |-> h] : h \in {<<"hash", id>>, <<>>}}

newEscrow(p, inv) ==
    [id |-> p.id,
     state |-> CREATED,
     amountSats |-> p.cfg.amountSats,
     workerAddress |-> p.cfg.workerAddress,
     workerInvoice |-> p.cfg.workerInvoice,
     metadata |-> IF p.cfg.metadata THEN CallerMeta ELSE p.id,
     invoice |-> inv.invoice,
     paymentHash |-> inv.paymentHash,
     deadline |-> p.now + p.deadlineMs,
     createdAt |-> p.now,
     updatedAt |-> p.now,
     fundedAt |-> NullAt,
     deliveredAt |-> NullAt,
     releasedAt |-> NullAt,
     refundedAt |-> NullAt,
     deliveryProof |-> Null,
     releasePreimage |-> Null,
     refundAddress |-> Null,
     history |-> <<[from |-> Null, to |-> CREATED, at |-> p.now]>>]

\* startDeadlineTimer without the remaining <= 0 branch
expiresAtStart_Never(e) == FALSE

\* startDeadlineTimer(id) for the record e just stored: TRUE when the
\* deadline has already passed and the record expires on the spot
expiresAtStart(e) ==
    e.deadline - now <= 0 /\ e.state \in {FUNDED, CREATED}
armsTimer(e) == e.deadline - now > 0

CreateDone(p) ==
    /\ BagIn(p, pendingCreate)
    /\ pendingCreate' = RemoveFrom(pendingCreate, p)
    /\ \/ \E inv \in InvoiceReplies(p.id) :
            LET e == newEscrow(p, inv) IN
            /\ metaObjs' = IF p.cfg.metadata THEN metaObjs
                           ELSE (p.id :> <<>>) @@ metaObjs
            /\ IF expiresAtStart(e)
               THEN /\ escrows' = (p.id :> transition(e, EXPIRED, now)) @@ escrows
                    /\ stateChanges' = notify(stateChanges, p.id, e.state, EXPIRED)
                    /\ timers' = timers
               ELSE /\ escrows' = (p.id :> e) @@ escrows
                    /\ stateChanges' = stateChanges
                    /\ timers' = IF armsTimer(e) THEN timers \cup {p.id} ELSE timers
            /\ ret' = Resumed(Returned("create", p.id, <<inv>>))
       \/ /\ ret' = Resumed(Threw("create", p.id, "wallet error", <<>>))
          /\ UNCHANGED <<escrows, timers, metaObjs, stateChanges>>
    /\ UNCHANGED <<now, nextId, pendingFund, pendingRelease, pendingRefund>>

\* ------------------------------------------------------------------- fund
Fund(id, autoDetect) ==
    IF id \notin DOMAIN escrows
    THEN /\ ret' = Threw("fund", id, "Unknown escrow", <<>>)
         /\ UNCHANGED <<now, escrows, timers, metaObjs, nextId, pendings,
                        stateChanges>>
    ELSE IF escrows[id].state # CREATED
    THEN /\ ret' = Threw("fund", id, "Cannot fund escrow in state", <<>>)
         /\ UNCHANGED <<now, escrows, timers, metaObjs, nextId, pendings,
                        stateChanges>>
    ELSE IF autoDetect /\ escrows[id].paymentHash # <<>>
    THEN /\ CanCallWallet
         /\ pendingFund' = AddTo(pendingFund, [id |-> id])
         /\ ret' = Awaiting("fund", id,
                [method |-> "waitForPayment", id |-> id, target |-> escrows[id].paymentHash, amountSats |-> 0, expiry |-> 0])
         /\ UNCHANGED <<now, escrows, timers, metaObjs, nextId, pendingCreate,
                        pendingRelease, pendingRefund, stateChanges>>
    ELSE /\ CanGrow(id)
         /\ escrows' = [escrows EXCEPT ![id] =
                transition([@ EXCEPT !.fundedAt = now], FUNDED, now)]
         /\ stateChanges' = notify(stateChanges, id, escrows[id].state, FUNDED)
         /\ ret' = Returned("fund", id, <<>>)
         /\ UNCHANGED <<now, timers, metaObjs, nextId, pendings>>

\* fund that stamps fundedAt before it looks at the answer
fundApply_StampsBeforeCheck(e, r, t) ==
    IF ~r.paid THEN [e EXCEPT !.fundedAt = t]
    ELSE transition([e EXCEPT !.fundedAt = t], FUNDED, t)

\* lines 183-189: the record after the wallet answered r
fundApply(e, r, t) ==
    IF ~r.paid THEN e ELSE transition([e EXCEPT !.fundedAt = t], FUNDED, t)

\* what wallet.waitForPayment may resolve to
PaymentReplies == {[paid |-> TRUE], [paid |-> FALSE]}

FundDone(p) ==
    /\ BagIn(p, pendingFund)
    /\ pendingFund' = RemoveFrom(pendingFund, p)
    /\ \/ \E r \in PaymentReplies :
            /\ r.paid => CanGrow(p.id)
            /\ escrows' = [escrows EXCEPT ![p.id] = fundApply(@, r, now)]
            /\ IF ~r.paid
               THEN /\ ret' = Resumed(Threw("fund", p.id,
                            "Payment not received within timeout", <<r>>))
                    /\ stateChanges' = stateChanges
               ELSE /\ stateChanges' = notify(stateChanges, p.id, escrows[p.id].state, FUNDED)
                    /\ ret' = Resumed(Returned("fund", p.id, <<r>>))
       \/ /\ ret' = Resumed(Threw("fund", p.id, "wallet error", <<>>))
          /\ UNCHANGED <<escrows, stateChanges>>
    /\ UNCHANGED <<now, timers, metaObjs, nextId, pendingCreate, pendingRelease,
                   pendingRefund>>

\* ---------------------------------------------------------------- deliver
\* deliver that also accepts an escrow not funded yet
deliverRejects_AlsoCreated(e) == e.state # FUNDED /\ e.state # CREATED

deliverRejects(e) == e.state # FUNDED

Deliver(id, proof) ==
    IF id \notin DOMAIN escrows
    THEN /\ ret' = Threw("deliver", id, "Unknown escrow", <<>>)
         /\ UNCHANGED <<now, escrows, timers, metaObjs, nextId, pendings,
                        stateChanges>>
    ELSE IF deliverRejects(escrows[id])
    THEN /\ ret' = Threw("deliver", id, "Cannot deliver on escrow in state", <<>>)
         /\ UNCHANGED <<now, escrows, timers, metaObjs, nextId, pendings,
                        stateChanges>>
    ELSE /\ CanGrow(id)
         /\ escrows' = [escrows EXCEPT ![id] =
                transition([@ EXCEPT !.deliveryProof = proof, !.deliveredAt = now],
                           DELIVERED, now)]
         /\ stateChanges' = notify(stateChanges, id, escrows[id].state, DELIVERED)
         /\ ret' = Returned("deliver", id, <<>>)
         /\ UNCHANGED <<now, timers, metaObjs, nextId, pendings>>

\* ---------------------------------------------------------------- release
releaseRejects(e) == e.state # FUNDED /\ e.state # DELIVERED

Release(id) ==
    IF id \notin DOMAIN escrows
    THEN /\ ret' = Threw("release", id, "Unknown escrow", <<>>)
         /\ UNCHANGED <<now, escrows, timers, metaObjs, nextId, pendings,
                        stateChanges>>
    ELSE IF releaseRejects(escrows[id])
    THEN /\ ret' = Threw("release", id, "Cannot release escrow in state", <<>>)
         /\ UNCHANGED <<now, escrows, timers, metaObjs, nextId, pendings,
                        stateChanges>>
    ELSE IF escrows[id].workerInvoice # Null
    THEN /\ CanCallWallet
         /\ pendingRelease' = AddTo(pendingRelease, [id |-> id])
         /\ ret' = Awaiting("release", id,
                [method |-> "payInvoice", id |-> id, target |-> escrows[id].workerInvoice, amountSats |-> 0, expiry |-> 0])
         /\ UNCHANGED <<now, escrows, timers, metaObjs, nextId, pendingCreate,
                        pendingFund, pendingRefund, stateChanges>>
    ELSE IF escrows[id].workerAddress # Null
    THEN /\ CanCallWallet
         /\ pendingRelease' = AddTo(pendingRelease, [id |-> id])
         /\ ret' = Awaiting("release", id,
                [method |-> "payAddress", id |-> id, target |-> escrows[id].workerAddress, amountSats |-> escrows[id].amountSats, expiry |-> 0])
         /\ UNCHANGED <<now, escrows, timers, metaObjs, nextId, pendingCreate,
                        pendingFund, pendingRefund, stateChanges>>
    ELSE /\ ret' = Threw("release", id, "No worker payment destination", <<>>)
         /\ UNCHANGED <<now, escrows, timers, metaObjs, nextId, pendings,
                        stateChanges>>

\* what wallet.payInvoice / wallet.payAddress may resolve to
PayReplies == {[preimage |-> pre] : pre \in Preimages}

\* release that forgets to keep the preimage
releaseApply_NoPreimage(e, r, t) ==
    transition([e EXCEPT !.releasedAt = t], RELEASED, t)

\* lines 237-244: the record after the wallet paid and answered r
releaseApply(e, r, t) ==
    transition([e EXCEPT !.releasePreimage = r.preimage, !.releasedAt = t],
               RELEASED, t)

ReleaseDone(p) ==
    /\ BagIn(p, pendingRelease)
    /\ pendingRelease' = RemoveFrom(pendingRelease, p)
    /\ \/ \E r \in PayReplies :
            /\ CanGrow(p.id)
            /\ escrows' = [escrows EXCEPT ![p.id] = releaseApply(@, r, now)]
            /\ timers' = timers \ {p.id}
            /\ stateChanges' = notify(stateChanges, p.id, escrows[p.id].state, RELEASED)
            /\ ret' = Resumed(Returned("release", p.id, <<r>>))
       \/ /\ ret' = Resumed(Threw("release", p.id, "wallet error", <<>>))
          /\ UNCHANGED <<escrows, timers, stateChanges>>
    /\ UNCHANGED <<now, metaObjs, nextId, pendingCreate, pendingFund,
                   pendingRefund>>

\* ----------------------------------------------------------------- refund
\* refund that leaves the deadline timer armed
refundApply_KeepsTimer(id, refundAddress, reason) ==
    /\ CanGrow(id)
    /\ escrows' = [escrows EXCEPT ![id] =
           transition([@ EXCEPT !.refundAddress = refundAddress,
                                !.refundedAt = now], REFUNDED, now)]
    /\ metaObjs' = [metaObjs EXCEPT ![escrows[id].metadata] =
           ("refundReason" :> (IF reason = Null THEN "manual" ELSE reason)) @@ @]
    /\ timers' = timers
    /\ stateChanges' = notify(stateChanges, id, escrows[id].state, REFUNDED)

\* the part of refund after the wallet call: lines 272-279
refundApply(id, refundAddress, reason) ==
    /\ CanGrow(id)
    /\ escrows' = [escrows EXCEPT ![id] =
           transition([@ EXCEPT !.refundAddress = refundAddress,
                                !.refundedAt = now], REFUNDED, now)]
    /\ metaObjs' = [metaObjs EXCEPT ![escrows[id].metadata] =
           ("refundReason" :> (IF reason = Null THEN "manual" ELSE reason)) @@ @]
    /\ timers' = timers \ {id}
    /\ stateChanges' = notify(stateChanges, id, escrows[id].state, REFUNDED)

\* refund that forgets the REFUNDED check
refundRejects_OnlyReleased(e) == e.state = RELEASED

refundRejects(e) == e.state = RELEASED \/ e.state = REFUNDED

Refund(id, refundAddress, reason) ==
    IF id \notin DOMAIN escrows
    THEN /\ ret' = Threw("refund", id, "Unknown escrow", <<>>)
         /\ UNCHANGED <<now, escrows, timers, metaObjs, nextId, pendings,
                        stateChanges>>
    ELSE IF refundRejects(escrows[id])
    THEN /\ ret' = Threw("refund", id,
                IF escrows[id].state = RELEASED THEN "Cannot refund - already released"
                ELSE "Already refunded", <<>>)
         /\ UNCHANGED <<now, escrows, timers, metaObjs, nextId, pendings,
                        stateChanges>>
    ELSE IF refundAddress # Null
    THEN /\ CanCallWallet
         /\ pendingRefund' = AddTo(pendingRefund,
                [id |-> id, refundAddress |-> refundAddress, reason |-> reason])
         /\ ret' = Awaiting("refund", id,
                [method |-> "payAddress", id |-> id, target |-> refundAddress, amountSats |-> escrows[id].amountSats, expiry |-> 0])
         /\ UNCHANGED <<now, escrows, timers, metaObjs, nextId, pendingCreate,
                        pendingFund, pendingRelease, stateChanges>>
    ELSE /\ refundApply(id, refundAddress, reason)
         /\ ret' = Returned("refund", id, <<>>)
         /\ UNCHANGED <<now, nextId, pendings>>

RefundDone(p) ==
    /\ BagIn(p, pendingRefund)
    /\ pendingRefund' = RemoveFrom(pendingRefund, p)
    /\ \/ \E r \in PayReplies :
            /\ refundApply(p.id, p.refundAddress, p.reason)
            /\ ret' = Resumed(Returned("refund", p.id, <<r>>))
       \/ /\ ret' = Resumed(Threw("refund", p.id, "wallet error", <<>>))
          /\ UNCHANGED <<escrows, timers, metaObjs, stateChanges>>
    /\ UNCHANGED <<now, nextId, pendingCreate, pendingFund, pendingRelease>>

\* ---------------------------------------------------------------- dispute
\* dispute that forgets the REFUNDED check
disputeRejects_OnlyReleased(e) == e.state = RELEASED

disputeRejects(e) == e.state = RELEASED \/ e.state = REFUNDED

Dispute(id, reason, raisedBy) ==
    IF id \notin DOMAIN escrows
    THEN /\ ret' = Threw("dispute", id, "Unknown escrow", <<>>)
         /\ UNCHANGED <<now, escrows, timers, metaObjs, nextId, pendings,
                        stateChanges>>
    ELSE IF disputeRejects(escrows[id])
    THEN /\ ret' = Threw("dispute", id, "Cannot dispute - escrow already settled", <<>>)
         /\ UNCHANGED <<now, escrows, timers, metaObjs, nextId, pendings,
                        stateChanges>>
    ELSE /\ CanGrow(id)
         /\ metaObjs' = [metaObjs EXCEPT ![escrows[id].metadata] =
                ("dispute" :> [reason |-> reason, raisedBy |-> raisedBy, at |-> now]) @@ @]
         /\ escrows' = [escrows EXCEPT ![id] = transition(@, DISPUTED, now)]
         /\ stateChanges' = notify(stateChanges, id, escrows[id].state, DISPUTED)
         /\ ret' = Returned("dispute", id, <<>>)
         /\ UNCHANGED <<now, timers, nextId, pendings>>

\* --------------------------------------------------------- deadline timer
\* a callback that expires whatever is not settled
timerExpires_UnlessSettled(e) == e.state \notin {RELEASED, REFUNDED}

\* a callback that forgets escrows not funded yet
timerExpires_OnlyFunded(e) == e.state = FUNDED

\* the setTimeout callback of startDeadlineTimer
timerExpires(e) == e.state = FUNDED \/ e.state = CREATED

TimerFire(id) ==
    /\ id \in timers
    /\ now >= escrows[id].deadline
    /\ IF timerExpires(escrows[id])
       THEN /\ escrows' = [escrows EXCEPT ![id] = transition(@, EXPIRED, now)]
            /\ stateChanges' = notify(stateChanges, id, escrows[id].state, EXPIRED)
       ELSE UNCHANGED <<escrows, stateChanges>>
    /\ timers' = timers \ {id}
    /\ ret' = Returned("timer", id, <<>>)
    /\ UNCHANGED <<now, metaObjs, nextId, pendings>>

\* ------------------------------------------------------------- get, list
\* { ...e }: a new object holding the value of every own field of e. The
\* scalar fields are copied; history and metadata are references, so the
\* new object holds the engine's own history array (the one array that
\* transition() pushes to, named here by the escrow id) and the engine's
\* own metadata object (a reference into metaObjs).
spread(id) ==
    [of |-> id,
     own |-> [f \in DOMAIN escrows[id] \ {"history"} |-> escrows[id][f]]]

\* what a holder of snapshot sn reads through it
historyOf(sn) == escrows[sn.of].history
metadataOf(sn) == metaObjs[sn.own.metadata]
readThrough(sn) ==
    [own |-> sn.own, history |-> historyOf(sn), metadata |-> metadataOf(sn)]

Get(id) ==
    /\ IF id \in DOMAIN escrows
       THEN /\ Len(snapshots) < MaxSnapshots
            /\ snapshots' = Append(snapshots, spread(id))
       ELSE snapshots' = snapshots
    /\ ret' = Returned("get", id, <<>>)
    /\ UNCHANGED <<now, escrows, timers, metaObjs, nextId, pendings,
                   stateChanges, streamVars, client, auth>>

\* list(state): the copies of the stored escrows that pass the filter
RECURSIVE listFrom(_, _)
listFrom(i, state) ==
    IF i > nextId THEN <<>>
    ELSE (IF i \in DOMAIN escrows /\ (state = Null \/ escrows[i].state = state)
          THEN <<spread(i)>> ELSE <<>>) \o listFrom(i + 1, state)

List(state) ==
    /\ Len(snapshots) + Len(listFrom(1, state)) <= MaxSnapshots
    /\ snapshots' = snapshots \o listFrom(1, state)
    /\ ret' = Returned("list", 0, <<>>)
    /\ UNCHANGED <<now, escrows, timers, metaObjs, nextId, pendings,
                   stateChanges, streamVars, client, auth>>

\* the caller writes to what it was handed: a scalar field of the copy,
\* an element pushed on snapshot.history, a key set on snapshot.metadata
CallerSetsState(i) ==
    /\ i \in 1..Len(snapshots)
    /\ snapshots[i].own.state # "tampered"
    /\ snapshots' = [snapshots EXCEPT ![i].own.state = "tampered"]
    /\ ret' = Returned("caller", snapshots[i].of, <<>>)
    /\ UNCHANGED <<now, escrows, timers, metaObjs, nextId, pendings,
                   stateChanges, streamVars, client, auth>>

CallerPushesHistory(i) ==
    /\ i \in 1..Len(snapshots)
    /\ Len(historyOf(snapshots[i])) <= MaxTransitions
    /\ escrows' = [escrows EXCEPT ![snapshots[i].of].history =
           Append(@, [from |-> "tampered", to |-> "tampered", at |-> now])]
    /\ ret' = Returned("caller", snapshots[i].of, <<>>)
    /\ UNCHANGED <<now, timers, metaObjs, nextId, pendings, stateChanges,
                   snapshots, streamVars, client, auth>>

CallerSetsMetadata(i) ==
    /\ i \in 1..Len(snapshots)
    /\ "note" \notin DOMAIN metadataOf(snapshots[i])
    /\ metaObjs' = [metaObjs EXCEPT ![snapshots[i].own.metadata] =
           ("note" :> "tampered") @@ @]
    /\ ret' = Returned("caller", snapshots[i].of, <<>>)
    /\ UNCHANGED <<now, escrows, timers, nextId, pendings, stateChanges,
                   snapshots, streamVars, client, auth>>

\* ------------------------------------------------------------------ close
Close ==
    /\ timers' = {}
    /\ ret' = Returned("close", 0, <<>>)
    /\ UNCHANGED <<now, escrows, metaObjs, nextId, pendings, stateChanges>>

\* ------------------------------------------------------------------ clock
Tick ==
    /\ now < MaxTime
    /\ now' = now + 1
    /\ ret' = Returned("tick", 0, <<>>)
    /\ UNCHANGED <<escrows, timers, metaObjs, nextId, pendings, stateChanges>>

Next ==
    \/ (\E cfg \in LifecycleConfigs : Create(cfg)) /\ UNCHANGED beside
    \/ (\E p \in BagToSet(pendingCreate) : CreateDone(p)) /\ UNCHANGED beside
    \/ (\E id \in Ids, autoDetect \in BOOLEAN : Fund(id, autoDetect))
          /\ UNCHANGED beside
    \/ (\E p \in BagToSet(pendingFund) : FundDone(p)) /\ UNCHANGED beside
    \/ (\E id \in Ids : Deliver(id, "proof")) /\ UNCHANGED beside
    \/ (\E id \in Ids : Release(id)) /\ UNCHANGED beside
    \/ (\E p \in BagToSet(pendingRelease) : ReleaseDone(p)) /\ UNCHANGED beside
    \/ (\E id \in Ids, a \in RefundAddressInputs, r \in ReasonInputs :
            Refund(id, a, r)) /\ UNCHANGED beside
    \/ (\E p \in BagToSet(pendingRefund) : RefundDone(p)) /\ UNCHANGED beside
    \/ (\E id \in Ids, by \in RaisedByInputs : Dispute(id, "quality", by))
          /\ UNCHANGED beside
    \/ (\E id \in Ids : TimerFire(id)) /\ UNCHANGED beside
    \/ Close /\ UNCHANGED beside
    \/ Tick /\ UNCHANGED beside

Spec == Init /\ [][Next]_vars

\* the timer callbacks are run by the event loop once they are due
\* and the wallet answers every call (its requests time out)
FairSpec ==
    /\ Spec
    /\ \A id \in Ids : WF_vars(TimerFire(id) /\ UNCHANGED beside)
    /\ WF_vars((\E p \in BagToSet(pendingCreate) : CreateDone(p))
                 /\ UNCHANGED beside)
    /\ WF_vars((\E p \in BagToSet(pendingFund) : FundDone(p))
                 /\ UNCHANGED beside)
    /\ WF_vars((\E p \in BagToSet(pendingRelease) : ReleaseDone(p))
                 /\ UNCHANGED beside)
    /\ WF_vars((\E p \in BagToSet(pendingRefund) : RefundDone(p))
                 /\ UNCHANGED beside)

\* fund as it is called by default (autoDetect not switched off), with
\* create, the wallet's answers, the deadline timer and the clock
NextAutoDetect ==
    \/ (\E cfg \in LifecycleConfigs : Create(cfg)) /\ UNCHANGED beside
    \/ (\E p \in BagToSet(pendingCreate) : CreateDone(p)) /\ UNCHANGED beside
    \/ (\E id \in Ids : Fund(id, TRUE)) /\ UNCHANGED beside
    \/ (\E p \in BagToSet(pendingFund) : FundDone(p)) /\ UNCHANGED beside
    \/ (\E id \in Ids : TimerFire(id)) /\ UNCHANGED beside
    \/ Tick /\ UNCHANGED beside

AutoDetectSpec == Init /\ [][NextAutoDetect]_vars

\* create alone, over every config
NextCreate ==
    \/ (\E cfg \in Configs : Create(cfg)) /\ UNCHANGED beside
    \/ (\E p \in BagToSet(pendingCreate) : CreateDone(p)) /\ UNCHANGED beside
    \/ Tick /\ UNCHANGED beside

CreateSpec == Init /\ [][NextCreate]_vars

\* a caller that reads escrows with get and list and writes to what it got
NextSnapshot ==
    \/ (\E cfg \in LifecycleConfigs : Create(cfg)) /\ UNCHANGED beside
    \/ (\E p \in BagToSet(pendingCreate) : CreateDone(p)) /\ UNCHANGED beside
    \/ (\E id \in Ids, by \in RaisedByInputs : Dispute(id, "quality", by))
          /\ UNCHANGED beside
    \/ (\E id \in Ids : TimerFire(id)) /\ UNCHANGED beside
    \/ Tick /\ UNCHANGED beside
    \/ \E id \in Ids : Get(id)
    \/ \E state \in {Null, CREATED, DISPUTED} : List(state)
    \/ \E i \in 1..MaxSnapshots : CallerSetsState(i)
    \/ \E i \in 1..MaxSnapshots : CallerPushesHistory(i)
    \/ \E i \in 1..MaxSnapshots : CallerSetsMetadata(i)

SnapshotSpec == Init /\ [][NextSnapshot]_vars

\* several escrows side by side; the caller has one metadata object of its
\* own and passes it (metadata TRUE) or passes none (FALSE)
SharedIds == 1..MaxShared
SharedConfigs ==
    [amountSats : {2}, workerAddress : {"worker@x"}, workerInvoice : {Null},
     deadlineMs : {1}, metadata : BOOLEAN]

NextShared ==
    \/ (\E cfg \in SharedConfigs : CreateUpTo(cfg, MaxShared))
          /\ UNCHANGED beside
    \/ (\E p \in BagToSet(pendingCreate) : CreateDone(p)) /\ UNCHANGED beside
    \/ (\E id \in SharedIds, r \in ReasonInputs : Refund(id, Null, r))
          /\ UNCHANGED beside
    \/ (\E id \in SharedIds, by \in RaisedByInputs : Dispute(id, "quality", by))
          /\ UNCHANGED beside
    \/ (\E id \in SharedIds : TimerFire(id)) /\ UNCHANGED beside
    \/ Tick /\ UNCHANGED beside

SharedSpec == Init /\ [][NextShared]_vars

\* ========================================================= stream provider
\* src/lib/stream.js, createStreamProvider. A session is served by one
\* handleRequest call; the call is followed from await to await:
\*   "next"    for await (const token of gen)
\*   "invoice" await wallet.createInvoice
\*   "poll"    await wallet.waitForPayment, inside _waitForPayment
\*   "sleep"   await new Promise(r => setTimeout(r, 1000)), inside it
\*   "ended"   after finally
\* Tokens are non-empty strings, so the buffer is counted in tokens.

\* the options createStreamProvider is called with
ProviderOpts ==
    [satsPerBatch : {1}, tokensPerBatch : {1, 2}, maxBatches : {1, 2, 3},
     paymentTimeoutMs : {1}, invoiceExpiryS : {120}]

\* what a producer may throw: an Error with a message, a value that has no
\* message property (a string), or null / undefined
ThrownValues == {<<"Error", "producer error">>, <<"string">>, <<"null">>}

\* the generators handed to handleRequest: yields len tokens, then returns
\* (throws = <<>>) or throws a value
Generators == [len : 0..MaxTokens, throws : {<<>>} \cup ThrownValues]

\* crypto.createHash('sha256').update(preimage).digest('hex')
sha256(preimage) == <<"sha256", preimage>>

\* what a proof submission carries as preimage: none (Null), the hex
\* string of a preimage, such a string followed by characters that are not
\* hex digits, or a JSON value that is not a string
NotAString == "#number"
Trailing(preimage) == <<preimage, "zz">>
ProofInputs ==
    {<<p>> : p \in {Null, NotAString} \cup Preimages}
      \cup {Trailing(p) : p \in Preimages}

\* Buffer.from(preimage, 'hex'): decoding stops at the first character that
\* is not a hex digit
hexDecode(preimage) == preimage[1]

\* setTimeout(() => sessions.delete(sessionId), 5 * 60 * 1000), in units
\* of model time
cleanupDelayMs == 1

newSession(sid) ==
    [id |-> sid, batchIndex |-> 0, totalTokens |-> 0, totalSats |-> 0,
     pendingPayment |-> <<>>, paid |-> {}, closed |-> FALSE]

\* sendSSE(res, event, data)
sse(event, batchIndex, tokenCount, reason, paymentHash, s) ==
    [event |-> event, batchIndex |-> batchIndex, tokenCount |-> tokenCount,
     reason |-> reason, paymentHash |-> paymentHash,
     totalSats |-> s.totalSats, totalTokens |-> s.totalTokens]

contentEvent(s, tokenCount) ==
    sse("content", s.batchIndex, tokenCount, Null, <<>>, s)
doneEvent(s, reason) == sse("done", s.batchIndex, 0, reason, <<>>, s)
invoiceEvent(s, inv) ==
    sse("invoice", s.batchIndex + 1, 0, Null, inv.paymentHash, s)
      @@ [invoice |-> inv.invoice, sats |-> provider.satsPerBatch]
pausedEvent(s) == sse("paused", s.batchIndex, 0, "payment_timeout", <<>>, s)
errorEvent(s, msg) == sse("error", 0, 0, msg, <<>>, s)

\* one step of a handleRequest call: the session, the locals and the
\* response after it
StreamStep(sid, s, h, log) ==
    /\ sessions' = [sessions EXCEPT ![sid] = s]
    /\ handlers' = [handlers EXCEPT ![sid] = h]
    /\ sent' = [sent EXCEPT ![sid] = log]

\* a finally that sets no delete timer
finally_NoTimer(sid, s, h, log) ==
    /\ StreamStep(sid, [s EXCEPT !.closed = TRUE], [h EXCEPT !.pc = "ended"], log)
    /\ UNCHANGED cleanups

\* finally (lines 215-220): closed, res.end(), the delete timer
finally(sid, s, h, log) ==
    /\ StreamStep(sid, [s EXCEPT !.closed = TRUE], [h EXCEPT !.pc = "ended"], log)
    /\ cleanups' = (sid :> now + cleanupDelayMs) @@ cleanups

\* a flush of the last batch that forgets to count its tokens
afterLoop_ForgetsTokens(sid, s, h, log) ==
    LET flush == h.buffer > 0 /\ ~s.closed
        s1 == IF flush THEN [s EXCEPT !.batchIndex = @ + 1] ELSE s
        log1 == IF flush THEN Append(log, contentEvent(s1, h.tokenCount))
                ELSE log
        log2 == IF ~s1.closed THEN Append(log1, doneEvent(s1, "complete"))
                ELSE log1
    IN  finally(sid, s1, h, log2)

\* after the loop (lines 193-211): flush what is left, done, then finally
afterLoop(sid, s, h, log) ==
    LET flush == h.buffer > 0 /\ ~s.closed
        s1 == IF flush
              THEN [s EXCEPT !.batchIndex = @ + 1,
                             !.totalTokens = @ + h.tokenCount]
              ELSE s
        log1 == IF flush THEN Append(log, contentEvent(s1, h.tokenCount))
                ELSE log
        log2 == IF ~s1.closed THEN Append(log1, doneEvent(s1, "complete"))
                ELSE log1
    IN  finally(sid, s1, h, log2)

\* err.message (line 214): undefined (Null) for a value without that
\* property; reading it from null or undefined throws a TypeError
message(err) == IF err[1] = "Error" THEN err[2] ELSE Null
messageThrows(err) == err = <<"null">>

\* a catch that reports nothing
caught_Silent(sid, s, h, log, err) == finally(sid, s, h, log)

\* catch (lines 213-214), then finally; when err.message throws, nothing is
\* sent and handleRequest rejects
caught(sid, s, h, log, err) ==
    IF messageThrows(err)
    THEN finally(sid, s, h, log)
    ELSE finally(sid, s, h, Append(log, errorEvent(s, message(err))))

\* a wait without a timeout
waitLoop_NoTimeout(sid, s, h, log) ==
    IF h.batchIdx \in s.paid
    THEN /\ StreamStep(sid, [s EXCEPT !.totalSats = @ + provider.satsPerBatch],
                       [h EXCEPT !.pc = "next"], log)
         /\ UNCHANGED cleanups
    ELSE /\ StreamStep(sid, s, [h EXCEPT !.pc = "poll"], log)
         /\ UNCHANGED cleanups

\* _waitForPayment's while loop from its test on (lines 282-304), and what
\* handleRequest does with its result (lines 177-188)
waitLoop(sid, s, h, log) ==
    IF now - h.start < provider.paymentTimeoutMs
    THEN IF h.batchIdx \in s.paid
         THEN /\ StreamStep(sid, [s EXCEPT !.totalSats = @ + provider.satsPerBatch],
                            [h EXCEPT !.pc = "next"], log)
              /\ UNCHANGED cleanups
         ELSE /\ StreamStep(sid, s, [h EXCEPT !.pc = "poll"], log)
              /\ UNCHANGED cleanups
    ELSE afterLoop(sid, s, h, Append(log, pausedEvent(s)))

\* ------------------------------------------------- handleRequest (GET)
\* lines 93-119: the session is stored, its id sent, the loop entered
HandleRequest(firstBatchFree, gen) ==
    LET sid == Len(handlers) + 1 IN
    /\ sid <= MaxSessions
    /\ sessions' = (sid :> newSession(sid)) @@ sessions
    /\ handlers' = Append(handlers,
           [pc |-> "next", firstBatchFree |-> firstBatchFree,
            gen |-> gen.len, genThrows |-> gen.throws,
            buffer |-> 0, tokenCount |-> 0, start |-> NullAt, batchIdx |-> 0])
    /\ sent' = Append(sent, <<sse("session", 0, 0, Null, <<>>, newSession(sid))>>)
    /\ ret' = Returned("handleRequest", sid, <<>>)
    /\ UNCHANGED <<now, escrows, timers, metaObjs, nextId, pendings,
                   stateChanges, snapshots, provider, cleanups>>

\* a cap that is never reached
atMaxBatches_Never(s) == FALSE

\* line 143
atMaxBatches(s) == s.batchIndex >= provider.maxBatches

\* a gate that charges for the first batch too
needsPayment_Always(firstBatchFree, s) == TRUE

\* line 154
needsPayment(firstBatchFree, s) == ~(firstBatchFree /\ s.batchIndex = 1)

\* lines 121-156: the generator yields a token
StreamToken(sid) ==
    /\ sid \in DOMAIN handlers
    /\ handlers[sid].pc = "next"
    /\ handlers[sid].gen > 0
    /\ LET s == sessions[sid]
           h == [handlers[sid] EXCEPT !.gen = @ - 1]
           log == sent[sid]
           full == [h EXCEPT !.buffer = @ + 1, !.tokenCount = @ + 1]
           s1 == [s EXCEPT !.batchIndex = @ + 1,
                           !.totalTokens = @ + full.tokenCount]
           log1 == Append(log, contentEvent(s1, full.tokenCount))
           flushed == [full EXCEPT !.buffer = 0, !.tokenCount = 0]
       IN  IF s.closed
           THEN afterLoop(sid, s, h, log)
           ELSE IF full.tokenCount < provider.tokensPerBatch
           THEN /\ StreamStep(sid, s, full, log)
                /\ UNCHANGED cleanups
           ELSE IF atMaxBatches(s1)
           THEN afterLoop(sid, s1, flushed,
                          Append(log1, doneEvent(s1, "max_batches")))
           ELSE IF needsPayment(h.firstBatchFree, s1)
           THEN /\ StreamStep(sid, s1, [flushed EXCEPT !.pc = "invoice"], log1)
                /\ UNCHANGED cleanups
           ELSE /\ StreamStep(sid, s1, flushed, log1)
                /\ UNCHANGED cleanups
    /\ ret' = Returned("handleRequest", sid, <<>>)
    /\ UNCHANGED <<now, escrows, timers, metaObjs, nextId, pendings,
                   stateChanges, snapshots, provider>>

\* the generator returns, or throws
StreamEnd(sid) ==
    /\ sid \in DOMAIN handlers
    /\ handlers[sid].pc = "next"
    /\ handlers[sid].gen = 0
    /\ IF handlers[sid].genThrows # <<>>
       THEN /\ caught(sid, sessions[sid], handlers[sid], sent[sid],
                      handlers[sid].genThrows)
            /\ ret' = IF messageThrows(handlers[sid].genThrows)
                      THEN Threw("handleRequest", sid, "TypeError", <<>>)
                      ELSE Returned("handleRequest", sid, <<>>)
       ELSE /\ afterLoop(sid, sessions[sid], handlers[sid], sent[sid])
            /\ ret' = Returned("handleRequest", sid, <<>>)
    /\ UNCHANGED <<now, escrows, timers, metaObjs, nextId, pendings,
                   stateChanges, snapshots, provider>>

\* what wallet.createInvoice may resolve to
StreamInvoiceReplies ==
    {[invoice |-> <<"lnbc", pre>>, paymentHash |-> sha256(pre)] : pre \in Preimages}

\* lines 156-176 and 274-279: the invoice arrives, is recorded and sent,
\* and _waitForPayment runs up to its first await
InvoiceDone(sid) ==
    /\ sid \in DOMAIN handlers
    /\ handlers[sid].pc = "invoice"
    /\ \/ \E inv \in StreamInvoiceReplies :
            LET s == [sessions[sid] EXCEPT !.pendingPayment =
                        <<[paymentHash |-> inv.paymentHash,
                           batchIndex |-> sessions[sid].batchIndex + 1,
                           invoice |-> inv.invoice]>>]
                h == [handlers[sid] EXCEPT !.start = now,
                                           !.batchIdx = s.batchIndex + 1]
            IN  waitLoop(sid, s, h, Append(sent[sid], invoiceEvent(s, inv)))
       \/ caught(sid, sessions[sid], handlers[sid], sent[sid],
                 <<"Error", "wallet error">>)
    /\ ret' = Returned("handleRequest", sid, <<>>)
    /\ UNCHANGED <<now, escrows, timers, metaObjs, nextId, pendings,
                   stateChanges, snapshots, provider>>

\* what wallet.waitForPayment may resolve to; it may throw as well
PollReplies == {[paid |-> FALSE], [paid |-> TRUE]}

\* a poll that counts every answer as a payment
pollConfirms_Always(result) == TRUE

\* line 294
pollConfirms(result) == result.paid

\* lines 290-303: the wallet answers the poll
PollDone(sid) ==
    /\ sid \in DOMAIN handlers
    /\ handlers[sid].pc = "poll"
    /\ \/ \E result \in PollReplies :
            /\ IF pollConfirms(result)
               THEN StreamStep(sid,
                        [sessions[sid] EXCEPT
                            !.paid = @ \cup {handlers[sid].batchIdx},
                            !.pendingPayment = <<>>,
                            !.totalSats = @ + provider.satsPerBatch],
                        [handlers[sid] EXCEPT !.pc = "next"], sent[sid])
               ELSE StreamStep(sid, sessions[sid],
                        [handlers[sid] EXCEPT !.pc = "sleep"], sent[sid])
            /\ ret' = Resumed(Returned("_waitForPayment", sid, <<result>>))
       \/ /\ StreamStep(sid, sessions[sid],
                        [handlers[sid] EXCEPT !.pc = "sleep"], sent[sid])
          /\ ret' = Resumed(Threw("_waitForPayment", sid, "wallet error", <<>>))
    /\ UNCHANGED <<now, escrows, timers, metaObjs, nextId, pendings,
                   stateChanges, snapshots, provider, cleanups>>

\* lines 303, 282-286: the second is over, the loop tests again
SleepDone(sid) ==
    /\ sid \in DOMAIN handlers
    /\ handlers[sid].pc = "sleep"
    /\ waitLoop(sid, sessions[sid], handlers[sid], sent[sid])
    /\ ret' = Returned("handleRequest", sid, <<>>)
    /\ UNCHANGED <<now, escrows, timers, metaObjs, nextId, pendings,
                   stateChanges, snapshots, provider>>

\* ------------------------------------------------ _handlePayment (POST)
respond(sid, status, body) ==
    Returned("_handlePayment", sid, <<[status |-> status, body |-> body]>>)

\* a check that takes any preimage
proofMatches_Any(s, preimage) == TRUE

\* lines 243-247
proofMatches(s, preimage) ==
    sha256(hexDecode(preimage)) = s.pendingPayment[1].paymentHash

\* every rejection worded alike
rejection_Same(s, preimage) == "Invalid preimage"

\* lines 241-258 and 261-263: what a submission that is not accepted is
\* answered for a session that exists
rejection(s, preimage) ==
    IF preimage # <<Null>> /\ s.pendingPayment # <<>>
    THEN IF preimage = <<NotAString>> THEN "Invalid JSON" ELSE "Invalid preimage"
    ELSE "No pending payment or missing preimage"

HandlePayment(sid, preimage) ==
    /\ IF sid \notin DOMAIN sessions
       THEN /\ ret' = respond(sid, 404, "Unknown session")
            /\ UNCHANGED sessions
       ELSE IF /\ preimage # <<Null>>
               /\ sessions[sid].pendingPayment # <<>>
               /\ preimage # <<NotAString>>
               /\ proofMatches(sessions[sid], preimage)
       THEN /\ sessions' = [sessions EXCEPT
                  ![sid].paid = @ \cup {sessions[sid].pendingPayment[1].batchIndex},
                  ![sid].pendingPayment = <<>>]
            /\ ret' = respond(sid, 200, "ok")
       ELSE /\ ret' = respond(sid, 400, rejection(sessions[sid], preimage))
            /\ UNCHANGED sessions
    /\ UNCHANGED <<now, escrows, timers, metaObjs, nextId, pendings,
                   stateChanges, snapshots, provider, handlers, sent, cleanups>>

\* line 219: the delete timer fires
SessionCleanup(sid) ==
    /\ sid \in DOMAIN cleanups
    /\ now >= cleanups[sid]
    /\ sessions' = [k \in DOMAIN sessions \ {sid} |-> sessions[k]]
    /\ cleanups' = [k \in DOMAIN cleanups \ {sid} |-> cleanups[k]]
    /\ ret' = Returned("sessions.delete", sid, <<>>)
    /\ UNCHANGED <<now, escrows, timers, metaObjs, nextId, pendings,
                   stateChanges, snapshots, provider, handlers, sent>>

\* a provider of any options serving requests
StreamInit == InitEscrow /\ \E opts \in ProviderOpts : InitStream(opts)

NextStream ==
    \/ (\E f \in BOOLEAN, gen \in Generators : HandleRequest(f, gen))
          /\ UNCHANGED <<client, auth>>
    \/ (\E sid \in 1..MaxSessions : StreamToken(sid)) /\ UNCHANGED <<client, auth>>
    \/ (\E sid \in 1..MaxSessions : StreamEnd(sid)) /\ UNCHANGED <<client, auth>>
    \/ (\E sid \in 1..MaxSessions : InvoiceDone(sid)) /\ UNCHANGED <<client, auth>>
    \/ (\E sid \in 1..MaxSessions : PollDone(sid)) /\ UNCHANGED <<client, auth>>
    \/ (\E sid \in 1..MaxSessions : SleepDone(sid)) /\ UNCHANGED <<client, auth>>
    \/ (\E sid \in 1..MaxSessions, pre \in ProofInputs :
            HandlePayment(sid, pre)) /\ UNCHANGED <<client, auth>>
    \/ (\E sid \in 1..MaxSessions : SessionCleanup(sid)) /\ UNCHANGED <<client, auth>>
    \/ Tick /\ UNCHANGED beside

StreamSpec == StreamInit /\ [][NextStream]_vars

\* time goes on while a session waits for it: a payment wait that has not
\* timed out yet, or a delete timer that is not due yet
Elapse ==
    /\ \/ \E sid \in DOMAIN handlers :
             /\ handlers[sid].pc \in {"poll", "sleep"}
             /\ now - handlers[sid].start < provider.paymentTimeoutMs
       \/ \E sid \in DOMAIN cleanups : now < cleanups[sid]
    /\ now' = now + 1
    /\ ret' = Returned("tick", 0, <<>>)
    /\ UNCHANGED <<escrows, timers, metaObjs, nextId, pendings, stateChanges,
                   snapshots, streamVars, client, auth>>

NextStreamFair == NextStream \/ Elapse

\* the event loop runs every continuation and timer that is ready, time
\* passes, the wallet answers createInvoice and waitForPayment (its
\* requests time out), and the producer yields its next token or ends
FairStreamSpec ==
    /\ StreamInit /\ [][NextStreamFair]_vars
    /\ WF_vars(Elapse)
    /\ \A sid \in 1..MaxSessions :
          /\ WF_vars(StreamToken(sid) /\ UNCHANGED <<client, auth>>)
          /\ WF_vars(StreamEnd(sid) /\ UNCHANGED <<client, auth>>)
          /\ WF_vars(InvoiceDone(sid) /\ UNCHANGED <<client, auth>>)
          /\ WF_vars(PollDone(sid) /\ UNCHANGED <<client, auth>>)
          /\ WF_vars(SleepDone(sid) /\ UNCHANGED <<client, auth>>)
          /\ WF_vars(SessionCleanup(sid) /\ UNCHANGED <<client, auth>>)

\* a provider whose wallet cannot confirm payments: wallet.waitForPayment is
\* missing or rejects, so every poll of _waitForPayment ends in its catch
NextProofOnly ==
    \/ (\E f \in BOOLEAN, gen \in Generators : HandleRequest(f, gen))
          /\ UNCHANGED <<client, auth>>
    \/ (\E sid \in 1..MaxSessions : StreamToken(sid)) /\ UNCHANGED <<client, auth>>
    \/ (\E sid \in 1..MaxSessions : StreamEnd(sid)) /\ UNCHANGED <<client, auth>>
    \/ (\E sid \in 1..MaxSessions : InvoiceDone(sid)) /\ UNCHANGED <<client, auth>>
    \/ (\E sid \in 1..MaxSessions : PollDone(sid) /\ ret'.kind = "throw")
          /\ UNCHANGED <<client, auth>>
    \/ (\E sid \in 1..MaxSessions : SleepDone(sid)) /\ UNCHANGED <<client, auth>>
    \/ (\E sid \in 1..MaxSessions, pre \in ProofInputs :
            HandlePayment(sid, pre)) /\ UNCHANGED <<client, auth>>
    \/ (\E sid \in 1..MaxSessions : SessionCleanup(sid)) /\ UNCHANGED <<client, auth>>
    \/ Elapse

FairProofOnlySpec ==
    /\ StreamInit /\ [][NextProofOnly]_vars
    /\ WF_vars(Elapse)
    /\ \A sid \in 1..MaxSessions :
          /\ WF_vars(PollDone(sid) /\ ret'.kind = "throw" /\ UNCHANGED <<client, auth>>)
          /\ WF_vars(SleepDone(sid) /\ UNCHANGED <<client, auth>>)

\* ========================================================= stream client
\* src/lib/stream.js, createStreamClient. One stream() call is followed
\* from await to await:
\*   "fetch"  await fetch(url, fetchOpts)
\*   "read"   await reader.read()
\*   "pay"    await wallet.payInvoice(data.invoice)
\*   "proof"  await fetch(url, {method: 'POST', ...})
\*   "returned" / "failed": the generator has finished / thrown
\* The consumer takes every yielded chunk at once.

\* opts.maxSats and reqOpts.maxSats: not given (<<>>) or a number
OptMaxSatsInputs == {<<>>, <<2>>}
ReqMaxSatsInputs == {<<>>, <<0>>, <<1>>}

\* line 328: the default of opts.maxSats
DefaultMaxSats == 1000

\* v || d
orDefault(v, d) == IF v = <<>> \/ v[1] = 0 THEN d ELSE v[1]

\* the limit the caller gave: that of the call, else that of the client
maxSatsGiven(optMax, reqMax) ==
    IF reqMax # <<>> THEN reqMax[1]
    ELSE IF optMax # <<>> THEN optMax[1] ELSE DefaultMaxSats

\* lines 328-329, 352-371: stream() is called and sends its request
ClientStream(optMax, reqMax, autoPay) ==
    /\ client.pc = "idle"
    /\ client' = [NoCall EXCEPT
                    !.pc = "fetch", !.autoPay = autoPay,
                    !.maxSats = maxSatsGiven(optMax, reqMax),
                    !.budget = orDefault(reqMax, orDefault(optMax, DefaultMaxSats))]
    /\ ret' = Returned("stream", 0, <<>>)
    /\ UNCHANGED <<now, escrows, timers, metaObjs, nextId, pendings,
                   stateChanges, snapshots, streamVars, auth>>

\* lines 371-378: the provider takes the request and answers 200
ClientConnect(firstBatchFree, gen) ==
    /\ client.pc = "fetch"
    /\ HandleRequest(firstBatchFree, gen)
    /\ client' = [client EXCEPT !.pc = "read", !.pos = 1,
                                !.sessionId = 0, !.err = Null]
    /\ UNCHANGED auth

\* lines 371-374: fetch rejects, or the response is not ok
ClientFetchFails ==
    /\ client.pc = "fetch"
    /\ client' = [client EXCEPT !.pc = "failed", !.err = "Stream request failed"]
    /\ ret' = Threw("stream", 0, "Stream request failed", <<>>)
    /\ UNCHANGED <<now, escrows, timers, metaObjs, nextId, pendings,
                   stateChanges, snapshots, streamVars, auth>>

\* the response the call reads: that of the provider's latest session
Response == sent[Len(sent)]

\* a check that lets one more invoice through
withinBudget_OneOver(c, e) == c.autoPay /\ c.spent <= c.budget

\* line 411
withinBudget(c, e) == c.autoPay /\ c.spent + e.sats <= c.budget

\* a client that gives up when an invoice is not paid
afterFailedPay_Abort(c) ==
    [c EXCEPT !.pc = "failed", !.paying = <<>>,
              !.logged = @ \cup {"Stream payment failed"}]

\* lines 434-437: a failed payment is logged, the loop goes on
afterFailedPay(c) ==
    [c EXCEPT !.pc = "read", !.paying = <<>>,
              !.logged = @ \cup {"Stream payment failed"}]

\* lines 401-453: the switch over one complete event
handleEvent(c, e) ==
    LET next == [c EXCEPT !.pos = @ + 1] IN
    CASE e.event = "session" -> [next EXCEPT !.sessionId = Len(sent)]
      [] e.event = "content" -> [next EXCEPT !.yielded = Append(@, e.batchIndex)]
      [] e.event = "invoice" ->
            IF withinBudget(c, e)
            THEN [next EXCEPT !.pc = "pay", !.paying = <<e>>]
            ELSE [next EXCEPT !.logged = @ \cup {"Stream budget exhausted"},
                              !.skipped = @ \cup {e.batchIndex}]
      [] e.event = "done" -> [next EXCEPT !.pc = "returned"]
      [] e.event = "error" ->
            [next EXCEPT !.pc = "failed",
                         !.err = IF e.reason = Null THEN "Stream error"
                                 ELSE e.reason]
      [] OTHER -> next

\* lines 381-459: a read brings the next event whole
ClientRead ==
    /\ client.pc = "read"
    /\ client.pos <= Len(Response)
    /\ client' = handleEvent(client, Response[client.pos])
    /\ ret' = IF client'.pc = "failed"
              THEN Threw("stream", 0, client'.err, <<>>)
              ELSE Returned("stream", 0, <<>>)
    /\ UNCHANGED <<now, escrows, timers, metaObjs, nextId, pendings,
                   stateChanges, snapshots, streamVars, auth>>

\* lines 385-395: the lines of the next event come in two reads, split
\* after its event: or data: line; eventType and eventData are reset at
\* the second read and the event is never handled
ClientReadSplit ==
    /\ client.pc = "read"
    /\ client.pos <= Len(Response)
    /\ client.splits < MaxSplits
    /\ client' = [client EXCEPT !.pos = @ + 1, !.splits = @ + 1]
    /\ ret' = Returned("stream", 0, <<>>)
    /\ UNCHANGED <<now, escrows, timers, metaObjs, nextId, pendings,
                   stateChanges, snapshots, streamVars, auth>>

\* lines 382-383: the response has ended, reader.read() reports done
ClientReadEnd ==
    /\ client.pc = "read"
    /\ client.pos > Len(Response)
    /\ handlers[Len(handlers)].pc = "ended"
    /\ client' = [client EXCEPT !.pc = "returned"]
    /\ ret' = Returned("stream", 0, <<>>)
    /\ UNCHANGED <<now, escrows, timers, metaObjs, nextId, pendings,
                   stateChanges, snapshots, streamVars, auth>>

\* what wallet.payInvoice may resolve to for an invoice: its preimage, or
\* a result without one
StreamPayReplies(invoice) == {<<invoice[2]>>, <<>>}

\* lines 413-437: the wallet answers payInvoice
ClientPayDone ==
    /\ client.pc = "pay"
    /\ \/ \E preimage \in StreamPayReplies(client.paying[1].invoice) :
            /\ client' = [client EXCEPT
                 !.spent = @ + client.paying[1].sats,
                 !.paid = Append(@, client.paying[1]),
                 !.paying = <<>>,
                 !.preimage = preimage,
                 !.pc = IF client.sessionId # 0 /\ preimage # <<>>
                        THEN "proof" ELSE "read"]
            /\ ret' = Resumed(Returned("stream", 0, <<preimage>>))
       \/ /\ client' = afterFailedPay(client)
          /\ ret' = Resumed(Threw("payInvoice", 0, "wallet error", <<>>))
    /\ UNCHANGED <<now, escrows, timers, metaObjs, nextId, pendings,
                   stateChanges, snapshots, streamVars, auth>>

\* lines 419-429: the provider takes the proof and answers (a response
\* that is not ok is logged)
ClientProofDone ==
    /\ client.pc = "proof"
    /\ HandlePayment(client.sessionId, client.preimage)
    /\ client' = [client EXCEPT
                    !.pc = "read", !.preimage = <<>>,
                    !.logged = IF ret'.reply[1].status = 200 THEN @
                               ELSE @ \cup {"Preimage POST failed"}]
    /\ UNCHANGED auth

\* lines 430-432: the POST fails; it is logged
ClientProofFails ==
    /\ client.pc = "proof"
    /\ client' = [client EXCEPT !.pc = "read", !.preimage = <<>>,
                                !.logged = @ \cup {"Preimage POST error"}]
    /\ ret' = Resumed(Threw("fetch", 0, "network error", <<>>))
    /\ UNCHANGED <<now, escrows, timers, metaObjs, nextId, pendings,
                   stateChanges, snapshots, streamVars, auth>>

\* the provider the client talks to
ClientProviderOpts ==
    [satsPerBatch : {1}, tokensPerBatch : {1}, maxBatches : {3},
     paymentTimeoutMs : {1}, invoiceExpiryS : {120}]

\* the producers behind the endpoint
ClientGenerators ==
    [len : {1, MaxTokens},
     throws : {<<>>, <<"Error", "producer error">>, <<"string">>}]

ClientInit == InitEscrow /\ \E opts \in ClientProviderOpts : InitStream(opts)

\* one client call and the provider session that serves it
NextClient ==
    \/ \E optMax \in OptMaxSatsInputs, reqMax \in ReqMaxSatsInputs,
          autoPay \in BOOLEAN :
          ClientStream(optMax, reqMax, autoPay)
    \/ \E f \in BOOLEAN, gen \in ClientGenerators : ClientConnect(f, gen)
    \/ ClientFetchFails
    \/ ClientRead
    \/ ClientReadSplit
    \/ ClientReadEnd
    \/ ClientPayDone
    \/ ClientProofDone
    \/ ClientProofFails
    \/ (\E sid \in 1..MaxSessions : StreamToken(sid)) /\ UNCHANGED <<client, auth>>
    \/ (\E sid \in 1..MaxSessions : StreamEnd(sid)) /\ UNCHANGED <<client, auth>>
    \/ (\E sid \in 1..MaxSessions : InvoiceDone(sid)) /\ UNCHANGED <<client, auth>>
    \/ (\E sid \in 1..MaxSessions : PollDone(sid)) /\ UNCHANGED <<client, auth>>
    \/ (\E sid \in 1..MaxSessions : SleepDone(sid)) /\ UNCHANGED <<client, auth>>
    \/ (\E sid \in 1..MaxSessions : SessionCleanup(sid)) /\ UNCHANGED <<client, auth>>
    \/ Elapse

ClientSpec == ClientInit /\ [][NextClient]_vars

\* calls that pay automatically with a limit of 1 or 2 sats, to a
\* producer that yields enough for two invoices and does not fail
NextBudget ==
    \/ \E reqMax \in {<<1>>, <<2>>} : ClientStream(<<>>, reqMax, TRUE)
    \/ \E f \in BOOLEAN, len \in {MaxTokens - 1, MaxTokens} :
          ClientConnect(f, [len |-> len, throws |-> <<>>])
    \/ ClientFetchFails
    \/ ClientRead
    \/ ClientReadSplit
    \/ ClientReadEnd
    \/ ClientPayDone
    \/ ClientProofDone
    \/ ClientProofFails
    \/ (\E sid \in 1..MaxSessions : StreamToken(sid)) /\ UNCHANGED <<client, auth>>
    \/ (\E sid \in 1..MaxSessions : StreamEnd(sid)) /\ UNCHANGED <<client, auth>>
    \/ (\E sid \in 1..MaxSessions : InvoiceDone(sid)) /\ UNCHANGED <<client, auth>>
    \/ (\E sid \in 1..MaxSessions : PollDone(sid)) /\ UNCHANGED <<client, auth>>
    \/ (\E sid \in 1..MaxSessions : SleepDone(sid)) /\ UNCHANGED <<client, auth>>
    \/ (\E sid \in 1..MaxSessions : SessionCleanup(sid)) /\ UNCHANGED <<client, auth>>
    \/ Elapse

\* every await that ends by itself does end: the wallet's requests time
\* out (part_004 213-217: createInvoice 15 s, lookup_invoice 10 s,
\* pay_invoice 30 s), the sleep timer fires, time passes. The fetch of the
\* proof POST (lines 419-425) has no timeout: nothing makes it end when the
\* provider does not answer
TimedOutSpec ==
    /\ ClientInit /\ [][NextBudget]_vars
    /\ WF_vars(Elapse)
    /\ WF_vars(ClientPayDone)
    /\ \A sid \in 1..MaxSessions :
          /\ WF_vars(InvoiceDone(sid) /\ UNCHANGED <<client, auth>>)
          /\ WF_vars(PollDone(sid) /\ UNCHANGED <<client, auth>>)
          /\ WF_vars(SleepDone(sid) /\ UNCHANGED <<client, auth>>)

\* the provider's continuations and timers run, time passes and its wallet
\* answers; nothing is assumed of the client
FairBudgetSpec ==
    /\ ClientInit /\ [][NextBudget]_vars
    /\ WF_vars(Elapse)
    /\ \A sid \in 1..MaxSessions :
          /\ WF_vars(PollDone(sid) /\ UNCHANGED <<client, auth>>)
          /\ WF_vars(SleepDone(sid) /\ UNCHANGED <<client, auth>>)

\* ------------------------------------------------- an endpoint of any kind
\* stream(url) reads whatever the server at url sends. Such a server is free
\* in what it writes: the sats an invoice event declares need not be the
\* amount of the invoice it carries.

\* the amount a bolt11 invoice encodes, which is what wallet.payInvoice
\* pays: the provider of this library asks its wallet for satsPerBatch
\* (line 157)
amountOf(invoice) ==
    IF Len(invoice) = 3 THEN invoice[3] ELSE provider.satsPerBatch

\* the events such a server may send: content, invoice events declaring
\* 0 or 1 sats for an invoice of 1 or 3 sats, done
ForeignEvents ==
    {[event |-> "content", batchIndex |-> 1], [event |-> "done", batchIndex |-> 1]}
      \cup {[event |-> "invoice", batchIndex |-> 1, sats |-> declared,
              invoice |-> <<"lnbc", pre, amount>>] :
                declared \in {0, 1}, amount \in {1, 3}, pre \in Preimages}

\* lines 371-378: the server answers 200
ForeignConnect ==
    /\ client.pc = "fetch"
    /\ client' = [client EXCEPT !.pc = "read", !.pos = 1,
                                !.sessionId = 0, !.err = Null]
    /\ ret' = Returned("stream", 0, <<>>)
    /\ UNCHANGED <<now, escrows, timers, metaObjs, nextId, pendings,
                   stateChanges, snapshots, streamVars, auth>>

\* lines 381-459: a read brings the event e
ForeignRead(e) ==
    /\ client.pc = "read"
    /\ client.pos <= MaxEvents
    /\ client' = handleEvent(client, e)
    /\ ret' = Returned("stream", 0, <<>>)
    /\ UNCHANGED <<now, escrows, timers, metaObjs, nextId, pendings,
                   stateChanges, snapshots, streamVars, auth>>

\* a call that pays automatically up to 1 or 2 sats, reading from such a
\* server; no session event is sent, so no proof is posted (line 418)
NextForeign ==
    \/ \E reqMax \in {<<1>>, <<2>>} : ClientStream(<<>>, reqMax, TRUE)
    \/ ForeignConnect
    \/ ClientFetchFails
    \/ \E e \in ForeignEvents : ForeignRead(e)
    \/ ClientPayDone

ForeignSpec == ClientInit /\ [][NextForeign]_vars

\* ============================================================ auth server
\* src/lib/auth.js, createAuthServer. A challenge k1 is 32 random bytes,
\* never drawn twice: the model numbers them 1, 2, ... as they are issued.
\* verify is synchronous and runs as one step.

\* opts.challengeTtlMs: not given or 0 (0), or a time in units of the clock
TtlInputs == {0, 1}

\* line 32: opts.challengeTtlMs || 5 * 60 * 1000
ttlOf(challengeTtlMs) == IF challengeTtlMs = 0 THEN DefaultTtlMs ELSE challengeTtlMs

\* the keys that sign
Keys == {"keyA", "keyB"}

\* signAuth(k1, privateKey): the signature of k1 under the key
signAuth(k1, key) == <<"sig", k1, key>>

\* what verify is handed: k1 (0: none), sig (<<>>: none, a signature, or a
\* string that is not a DER signature), key (Null: none)
K1Inputs == 0..MaxChallenges
SigInputs ==
    {<<>>, <<"malformed">>}
      \cup {signAuth(k1, key) : k1 \in 1..MaxChallenges, key \in Keys}
KeyInputs == {Null} \cup Keys

\* verifySignature (lines 252-270): it throws on a sig it cannot decode
verifySignatureThrows(k1, sig, key) == sig = <<"malformed">>
verifySignature(k1, sig, key) == sig = signAuth(k1, key)

\* lines 146-148, 90: the age test
expired(c) == now - c.createdAt > auth.ttl

\* a test that never finds a challenge used
alreadyUsed_Never(c) == FALSE

\* line 86
alreadyUsed(c) == c.used

\* lines 41-66: purge what has expired, store a new challenge
CreateChallenge ==
    /\ auth.issued < MaxChallenges
    /\ LET k1 == auth.issued + 1
           kept == {k \in DOMAIN auth.challenges : ~expired(auth.challenges[k])}
       IN  /\ auth' = [auth EXCEPT
                 !.challenges = (k1 :> [createdAt |-> now, used |-> FALSE])
                                  @@ [k \in kept |-> auth.challenges[k]],
                 !.issued = k1]
           /\ ret' = Returned("createChallenge", k1,
                              <<[k1 |-> k1, expiresAt |-> now + auth.ttl]>>)
    /\ UNCHANGED <<now, escrows, timers, metaObjs, nextId, pendings,
                   stateChanges, snapshots, streamVars, client>>

\* what verify returns
verdict(k1, valid, error) ==
    Returned("verify", k1, <<[valid |-> valid, error |-> error]>>)

\* lines 75-104
Verify(k1, sig, key) ==
    /\ Len(auth.granted) <= MaxChallenges
    /\ IF k1 = 0 \/ sig = <<>> \/ key = Null
       THEN /\ ret' = verdict(k1, FALSE, "Missing k1, sig, or key")
            /\ UNCHANGED auth
       ELSE IF k1 \notin DOMAIN auth.challenges
       THEN /\ ret' = verdict(k1, FALSE, "Unknown or expired challenge")
            /\ UNCHANGED auth
       ELSE IF alreadyUsed(auth.challenges[k1])
       THEN /\ ret' = verdict(k1, FALSE, "Challenge already used")
            /\ UNCHANGED auth
       ELSE IF expired(auth.challenges[k1])
       THEN /\ ret' = verdict(k1, FALSE, "Challenge expired")
            /\ auth' = [auth EXCEPT !.challenges =
                          [k \in DOMAIN @ \ {k1} |-> @[k]]]
       ELSE IF verifySignatureThrows(k1, sig, key)
       THEN /\ ret' = verdict(k1, FALSE, "err.message")
            /\ UNCHANGED auth
       ELSE IF verifySignature(k1, sig, key)
       THEN /\ ret' = verdict(k1, TRUE, Null)
            /\ auth' = [auth EXCEPT !.challenges[k1].used = TRUE,
                                    !.granted = Append(@, k1)]
       ELSE /\ ret' = verdict(k1, FALSE, "Invalid signature")
            /\ UNCHANGED auth
    /\ UNCHANGED <<now, escrows, timers, metaObjs, nextId, pendings,
                   stateChanges, snapshots, streamVars, client>>

\* time goes on while a challenge has not expired
AuthElapse ==
    /\ \E k \in DOMAIN auth.challenges : ~expired(auth.challenges[k])
    /\ auth.ttl # DefaultTtlMs
    /\ now' = now + 1
    /\ ret' = Returned("tick", 0, <<>>)
    /\ UNCHANGED <<escrows, timers, metaObjs, nextId, pendings, stateChanges,
                   snapshots, streamVars, client, auth>>

AuthInit ==
    /\ InitEscrow
    /\ provider = DefaultOpts /\ sessions = <<>> /\ handlers = <<>>
    /\ sent = <<>> /\ cleanups = <<>> /\ client = NoCall
    /\ \E challengeTtlMs \in TtlInputs : auth = newAuthServer(ttlOf(challengeTtlMs))

NextAuth ==
    \/ CreateChallenge
    \/ \E k1 \in K1Inputs, sig \in SigInputs, key \in KeyInputs : Verify(k1, sig, key)
    \/ AuthElapse
    \/ Tick /\ UNCHANGED beside

AuthSpec == AuthInit /\ [][NextAuth]_vars

\* ================================================================ claims
Terminal == {RELEASED, REFUNDED, EXPIRED}

TransitionTable ==
    {<<CREATED, FUNDED>>, <<CREATED, EXPIRED>>, <<FUNDED, DELIVERED>>,
     <<FUNDED, RELEASED>>, <<FUNDED, REFUNDED>>, <<FUNDED, EXPIRED>>,
     <<FUNDED, DISPUTED>>, <<DELIVERED, RELEASED>>, <<DELIVERED, REFUNDED>>,
     <<DELIVERED, DISPUTED>>}

HasEntered(id, st) ==
    \E i \in 1..Len(escrows[id].history) : escrows[id].history[i].to = st

\* C1: once an escrow is RELEASED, REFUNDED or EXPIRED its state never
\* changes again: no history entry has a from state that is terminal.
C1_TerminalStatesAreFinal ==
    \A id \in DOMAIN escrows :
        \A i \in 1..Len(escrows[id].history) :
            escrows[id].history[i].from \notin Terminal

\* C2: every history entry after the first is one of the ten pairs of the
\* transition table.
C2_OnlyTableTransitions ==
    \A id \in DOMAIN escrows :
        \A i \in 2..Len(escrows[id].history) :
            <<escrows[id].history[i].from, escrows[id].history[i].to>> \in TransitionTable

\* C3: operations on one escrow are serialized, so a release and a refund
\* of the same escrow never both succeed.
C3_ReleaseAndRefundExclusive ==
    \A id \in DOMAIN escrows :
        ~(HasEntered(id, RELEASED) /\ HasEntered(id, REFUNDED))

\* C4: a call of release, refund, fund or deliver made on an escrow that is
\* RELEASED or REFUNDED throws, makes no wallet call, appends no history
\* entry and leaves the escrow unchanged.
C4_SettledEscrowRejectsCalls ==
    [][\A id \in DOMAIN escrows :
          (/\ escrows[id].state \in {RELEASED, REFUNDED}
           /\ ret'.phase = "call"
           /\ ret'.id = id
           /\ ret'.op \in {"release", "refund", "fund", "deliver"})
          => (/\ ret'.kind = "throw"
              /\ ret'.call = <<>>
              /\ UNCHANGED <<escrows, timers, metaObjs, pendings, stateChanges>>)]_vars

C4_Witness ==
    /\ ret.op = "refund" /\ ret.phase = "call" /\ ret.kind = "throw"
    /\ ret.id \in DOMAIN escrows
    /\ escrows[ret.id].state = REFUNDED

\* C5: fund, release and refund are never partially applied: the step that
\* makes the wallet call and the step in which the call fails (payment not
\* confirmed, payment failed) leave the escrow record, its metadata, its
\* timer and the observer log as they were.
C5_NoPartialApplication ==
    [][(ret'.op \in {"fund", "release", "refund"} /\ ret'.kind \in {"await", "throw"})
          => UNCHANGED <<escrows, metaObjs, timers, stateChanges>>]_vars

C5_Witness ==
    /\ ret.op = "fund" /\ ret.phase = "resume" /\ ret.kind = "throw"
    /\ ret.err = "Payment not received within timeout"
    /\ escrows[ret.id].state = CREATED

\* C6: a deadline timer that fires on an escrow that is neither CREATED nor
\* FUNDED changes no state, appends no history entry and calls no observer.
C6_LateTimerIsNoOp ==
    [][(ret'.op = "timer" /\ escrows[ret'.id].state \notin {CREATED, FUNDED})
          => UNCHANGED <<escrows, metaObjs, stateChanges>>]_vars

C6_Witness ==
    /\ ret.op = "timer"
    /\ escrows[ret.id].state \in {DELIVERED, DISPUTED}

Due(id) ==
    /\ id \in DOMAIN escrows
    /\ escrows[id].state \in {CREATED, FUNDED}
    /\ now >= escrows[id].deadline

IsExpired(id) == id \in DOMAIN escrows /\ escrows[id].state = EXPIRED

\* EXPIRED is entered only by the deadline code (the timer callback, or
\* startDeadlineTimer inside create) and only from CREATED or FUNDED
OnlyDeadlineExpires ==
    \A id \in DOMAIN escrows' :
        (escrows'[id].state = EXPIRED /\ ~IsExpired(id))
        => /\ ret'.op \in {"timer", "create"}
           /\ ret'.id = id
           /\ escrows'[id].history[Len(escrows'[id].history)].from \in {CREATED, FUNDED}

\* C7 as claimed: every escrow still CREATED or FUNDED when its deadline
\* passes eventually becomes EXPIRED, and EXPIRED is entered only by the
\* deadline code and only from CREATED or FUNDED.  The claim is read in its
\* weakest sense: an escrow that another operation takes out of CREATED or
\* FUNDED after the deadline, before the timer callback runs, is not held
\* against it; only an escrow that stays CREATED or FUNDED for ever is.
C7_EveryDueEscrowExpires ==
    /\ \A id \in Ids : Due(id) ~> (IsExpired(id) \/ ~Due(id))
    /\ [][OnlyDeadlineExpires]_vars

\* C7 as amended: an escrow that is CREATED or FUNDED when its deadline
\* timer fires becomes EXPIRED; a timer still armed when the deadline has
\* passed eventually fires or is cancelled (release, refund, close); and
\* EXPIRED is entered only by the deadline code and only from CREATED or
\* FUNDED.
C7_ArmedTimerExpires ==
    /\ \A id \in Ids : (Due(id) /\ id \in timers) ~> (IsExpired(id) \/ id \notin timers)
    /\ [][(ret'.op = "timer" /\ escrows[ret'.id].state \in {CREATED, FUNDED})
             => escrows'[ret'.id].state = EXPIRED]_vars
    /\ [][OnlyDeadlineExpires]_vars

C7_Witness ==
    /\ ret.op = "timer"
    /\ escrows[ret.id].state = EXPIRED
    /\ escrows[ret.id].history[Len(escrows[ret.id].history)].from = FUNDED

ObservedOf(id) == SelectSeq(stateChanges, LAMBDA c : c.id = id)

\* C8: for every escrow, history[1] is (null -> CREATED), each later entry
\* starts where the previous one ended, the last entry ends in the current
\* state, and the observer was called once per later entry, in order, with
\* the same (id, from, to).
C8_HistoryMatchesObserver ==
    \A id \in DOMAIN escrows :
        LET h == escrows[id].history
            obs == ObservedOf(id)
        IN /\ Len(h) >= 1
           /\ h[1].from = Null /\ h[1].to = CREATED
           /\ \A i \in 2..Len(h) : h[i].from = h[i-1].to
           /\ h[Len(h)].to = escrows[id].state
           /\ Len(obs) = Len(h) - 1
           /\ \A i \in 1..Len(obs) :
                 obs[i].from = h[i+1].from /\ obs[i].to = h[i+1].to

C8_Witness ==
    \E id \in DOMAIN escrows :
        Len(escrows[id].history) >= 3 /\ Len(ObservedOf(id)) >= 2

\* C9: create with a non-positive or missing amountSats, or with neither
\* workerAddress nor workerInvoice, throws before any side effect: no wallet
\* call, no escrow stored, no timer started.
C9_InvalidCreateHasNoEffect ==
    [][\A cfg \in Configs :
          (/\ \/ cfg.amountSats <= 0
              \/ (cfg.workerAddress = Null /\ cfg.workerInvoice = Null)
           /\ Create(cfg))
          => (/\ ret'.kind = "throw"
              /\ ret'.call = <<>>
              /\ UNCHANGED <<escrows, timers, metaObjs, nextId, pendings, stateChanges>>)]_vars

C9_Witness ==
    /\ ret.op = "create" /\ ret.kind = "throw"
    /\ ret.err = "workerAddress or workerInvoice required"
    /\ escrows = <<>> /\ timers = {} /\ InFlight = 0

RequestedDuration(cfg) == IF cfg.deadlineMs = 0 THEN 60 * 60 * 1000 ELSE cfg.deadlineMs

\* the invoice request of a valid create: amountSats, expiry = duration in
\* seconds (rounded up)
CreateRequestsInvoice ==
    \A cfg \in Configs :
        (Create(cfg) /\ ret'.kind = "await")
        => /\ ret'.call[1].method = "createInvoice"
           /\ ret'.call[1].amountSats = cfg.amountSats
           /\ ret'.call[1].expiry * 1000 >= RequestedDuration(cfg)
           /\ (ret'.call[1].expiry - 1) * 1000 < RequestedDuration(cfg)

\* the fields of the escrow a successful create returns
CreateReturnsFields(p) ==
    LET e == escrows'[p.id] IN
    /\ p.id \notin DOMAIN escrows
    /\ e.amountSats = p.cfg.amountSats
    /\ e.invoice = ret'.reply[1].invoice
    /\ e.paymentHash = ret'.reply[1].paymentHash
    /\ e.createdAt = p.now
    /\ e.deadline = p.now + RequestedDuration(p.cfg)
    /\ e.history[1] = [from |-> Null, to |-> CREATED, at |-> p.now]

CreateReturn(p) ==
    ret'.op = "create" /\ ret'.kind = "return" /\ ret'.id = p.id

\* C10 as claimed: a successful create returns an escrow in state CREATED
\* with the requested amountSats, the wallet's invoice and paymentHash,
\* deadline = creation time + duration (default 1 hour) and a history of
\* exactly one entry.
C10_CreateReturnsCreated ==
    [][/\ CreateRequestsInvoice
       /\ \A p \in BagToSet(pendingCreate) :
            CreateReturn(p)
            => /\ CreateReturnsFields(p)
               /\ escrows'[p.id].state = CREATED
               /\ Len(escrows'[p.id].history) = 1]_vars

\* C10 as amended: as claimed when the wallet answers before the deadline;
\* when the invoice request took at least the deadline duration, the escrow
\* is returned already EXPIRED, with the two history entries
\* (null -> CREATED) and (CREATED -> EXPIRED) and no timer.
C10_CreateReturnsCreatedOrExpired ==
    [][/\ CreateRequestsInvoice
       /\ \A p \in BagToSet(pendingCreate) :
            CreateReturn(p)
            => /\ CreateReturnsFields(p)
               /\ IF now < escrows'[p.id].deadline
                  THEN /\ escrows'[p.id].state = CREATED
                       /\ Len(escrows'[p.id].history) = 1
                       /\ p.id \in timers'
                  ELSE /\ escrows'[p.id].state = EXPIRED
                       /\ Len(escrows'[p.id].history) = 2
                       /\ escrows'[p.id].history[2].from = CREATED
                       /\ p.id \notin timers']_vars

C10_Witness ==
    /\ ret.op = "create" /\ ret.kind = "return"
    /\ escrows[ret.id].state = CREATED
    /\ escrows[ret.id].deadline = escrows[ret.id].createdAt + defaultDeadlineMs
    /\ now > escrows[ret.id].createdAt

\* ------------------------------------------------------------ C11 release
\* the wallet call a release of e makes: payInvoice on the worker invoice
\* when there is one, otherwise payAddress to the worker address
ReleasePays(e, c) ==
    IF e.workerInvoice # Null
    THEN c.method = "payInvoice" /\ c.target = e.workerInvoice
    ELSE /\ c.method = "payAddress"
         /\ c.target = e.workerAddress
         /\ c.amountSats = e.amountSats

\* C11: a release that suspends on the wallet made the payment call chosen
\* by the escrow's destination; a release that returns left in
\* releasePreimage exactly the preimage of the wallet reply it resumed with;
\* and releasePreimage is non-null only where history contains RELEASED.
C11_ReleaseKeepsWalletPreimage ==
    /\ [][(ret'.op = "release" /\ ret'.kind = "await")
            => /\ Len(ret'.call) = 1
               /\ ReleasePays(escrows[ret'.id], ret'.call[1])
               /\ InFlight' = InFlight + 1]_vars
    /\ [][(ret'.op = "release" /\ ret'.kind = "return")
            => /\ ret'.phase = "resume"
               /\ Len(ret'.reply) = 1
               /\ escrows'[ret'.id].releasePreimage = ret'.reply[1].preimage
               /\ escrows'[ret'.id].state = RELEASED]_vars
    /\ [](\A id \in DOMAIN escrows :
            escrows[id].releasePreimage # Null => HasEntered(id, RELEASED))

C11_Witness ==
    /\ ret.op = "release" /\ ret.kind = "return"
    /\ escrows[ret.id].workerInvoice # Null
    /\ escrows[ret.id].releasePreimage = "pre2"
    /\ HasEntered(ret.id, RELEASED)

\* ------------------------------------------------------------ C14 dispute
\* C14: a dispute step makes no wallet call; on an escrow that is neither
\* RELEASED nor REFUNDED it records reason and raisedBy under
\* metadata.dispute and moves the escrow to DISPUTED; on a RELEASED or
\* REFUNDED escrow it throws and leaves escrow and metadata as they were.
C14_DisputeNeverTouchesFunds ==
    [][\A id \in DOMAIN escrows, by \in RaisedByInputs :
         Dispute(id, "quality", by)
           => /\ ret'.call = <<>>
              /\ pendings' = pendings
              /\ IF escrows[id].state \in {RELEASED, REFUNDED}
                 THEN /\ ret'.kind = "throw"
                      /\ escrows' = escrows
                      /\ metaObjs' = metaObjs
                      /\ stateChanges' = stateChanges
                 ELSE /\ ret'.kind = "return"
                      /\ escrows'[id].state = DISPUTED
                      /\ LET d == metaObjs'[escrows'[id].metadata]["dispute"]
                         IN  d.reason = "quality" /\ d.raisedBy = by]_vars

C14_Witness ==
    /\ ret.op = "dispute" /\ ret.kind = "return"
    /\ escrows[ret.id].state = DISPUTED
    /\ HasEntered(ret.id, FUNDED)
    /\ "dispute" \in DOMAIN metaObjs[escrows[ret.id].metadata]

\* ------------------------------------------------------------- C15 refund
RefundSettled(id, reason) ==
    /\ escrows'[id].state = REFUNDED
    /\ metaObjs'[escrows'[id].metadata]["refundReason"]
         = (IF reason = Null THEN "manual" ELSE reason)
    /\ id \notin timers'

\* C15: a permitted refund with an address makes one payAddress call to
\* that address for amountSats and nothing else until the wallet answers;
\* with a null address it makes no wallet call; the refund that goes
\* through (at the call for a null address, at the wallet's answer
\* otherwise, without a second wallet call) records the reason
\* ("manual" when none is given), is REFUNDED and has no timer armed.
C15_RefundPaysOnceThenSettles ==
    /\ [][\A id \in DOMAIN escrows, a \in RefundAddressInputs, r \in ReasonInputs :
            (Refund(id, a, r) /\ escrows[id].state \notin {RELEASED, REFUNDED})
              => IF a # Null
                 THEN /\ ret'.kind = "await"
                      /\ ret'.call = <<[method |-> "payAddress", id |-> id,
                                        target |-> a,
                                        amountSats |-> escrows[id].amountSats,
                                        expiry |-> 0]>>
                      /\ InFlight' = InFlight + 1
                      /\ escrows' = escrows
                 ELSE /\ ret'.kind = "return"
                      /\ ret'.call = <<>>
                      /\ pendings' = pendings
                      /\ RefundSettled(id, r)]_vars
    /\ [][\A p \in BagToSet(pendingRefund) :
            (RefundDone(p) /\ ret'.kind = "return")
              => /\ ret'.call = <<>>
                 /\ InFlight' = InFlight - 1
                 /\ RefundSettled(p.id, p.reason)]_vars

C15_Witness ==
    /\ ret.op = "refund" /\ ret.kind = "return" /\ ret.phase = "resume"
    /\ escrows[ret.id].state = REFUNDED
    /\ escrows[ret.id].refundAddress = "client@x"
    /\ escrows[ret.id].history[Len(escrows[ret.id].history)].from = FUNDED
    /\ ret.id \notin timers

\* ------------------------------------------------------------ C16 deliver
\* C16: a deliver step makes no wallet call; on a FUNDED escrow it returns
\* with the proof stored and the escrow DELIVERED; in every other state it
\* throws and state, deliveryProof, deliveredAt and history are unchanged.
C16_DeliverOnlyFromFunded ==
    [][\A id \in DOMAIN escrows :
         Deliver(id, "proof")
           => /\ ret'.call = <<>>
              /\ pendings' = pendings
              /\ IF escrows[id].state = FUNDED
                 THEN /\ ret'.kind = "return"
                      /\ escrows'[id].state = DELIVERED
                      /\ escrows'[id].deliveryProof = "proof"
                 ELSE /\ ret'.kind = "throw"
                      /\ escrows'[id].state = escrows[id].state
                      /\ escrows'[id].deliveryProof = escrows[id].deliveryProof
                      /\ escrows'[id].deliveredAt = escrows[id].deliveredAt
                      /\ escrows'[id].history = escrows[id].history]_vars

C16_Witness ==
    /\ ret.op = "deliver" /\ ret.kind = "return"
    /\ escrows[ret.id].state = DELIVERED
    /\ escrows[ret.id].deliveryProof = "proof"

\* ---------------------------------------------------------- C12 snapshots
CallerWrites ==
    \E i \in 1..Len(snapshots) :
        CallerSetsState(i) \/ CallerPushesHistory(i) \/ CallerSetsMetadata(i)

\* C12: what get and list return is independent of the engine: a write of
\* the caller to a returned snapshot (its fields, its history, its
\* metadata) changes nothing the engine stores, and a step of the engine
\* changes nothing that is read through a snapshot returned earlier.
C12_SnapshotsAreIndependent ==
    [][/\ CallerWrites => UNCHANGED <<escrows, metaObjs>>
       /\ ~CallerWrites =>
            \A i \in 1..Len(snapshots) :
                readThrough(snapshots[i])' = readThrough(snapshots[i])]_vars

\* ------------------------------------------------------ C13 shared-nothing
\* a call or a timer firing on escrow a
ActsOn(a) ==
    \/ \E r \in ReasonInputs : Refund(a, Null, r)
    \/ \E by \in RaisedByInputs : Dispute(a, "quality", by)
    \/ TimerFire(a)

\* C13: a refund, a dispute or a timer firing on escrow a changes no field
\* of another escrow b: b's record, with its history, and b's metadata
\* stay as they were.
C13_EscrowsShareNothing ==
    [][\A a \in DOMAIN escrows, b \in DOMAIN escrows :
         (a # b /\ ActsOn(a))
           => /\ escrows'[b] = escrows[b]
              /\ metaObjs'[escrows[b].metadata] = metaObjs[escrows[b].metadata]]_vars

\* ----------------------------------------------------- C17 payment gating
HasEvent(sid, event) ==
    \E i \in 1..Len(sent[sid]) : sent[sid][i].event = event

CountEvents(sid, event) ==
    Cardinality({i \in 1..Len(sent[sid]) : sent[sid][i].event = event})

\* this step writes an event of this kind to the response of sid
Emits(sid, event) ==
    \E i \in (Len(sent[sid]) + 1)..Len(sent'[sid]) : sent'[sid][i].event = event

\* content is written only when every invoice sent before is in paid
ContentOnlyWhenPaid ==
    [][\A sid \in DOMAIN sent :
         Emits(sid, "content")
           => \A i \in 1..Len(sent[sid]) :
                  sent[sid][i].event = "invoice"
                    => sent[sid][i].batchIndex \in sessions[sid].paid]_vars

\* a batch enters paid only by a proof whose hash is the pending payment's
\* or by a wallet poll that answered paid
PaidOnlyWhenConfirmed ==
    [][\A sid \in DOMAIN sessions \cap DOMAIN sessions' :
         \A b \in sessions'[sid].paid \ sessions[sid].paid :
            \/ /\ sessions[sid].pendingPayment # <<>>
               /\ sessions[sid].pendingPayment[1].batchIndex = b
               /\ \E pre \in Preimages :
                     /\ HandlePayment(sid, <<pre>>)
                          \/ HandlePayment(sid, <<pre, "zz">>)
                     /\ sha256(pre) = sessions[sid].pendingPayment[1].paymentHash
            \/ /\ handlers[sid].pc = "poll"
               /\ handlers[sid].batchIdx = b
               /\ ret'.op = "_waitForPayment" /\ ret'.kind = "return"
               /\ ret'.reply = <<[paid |-> TRUE]>>]_vars

\* the wait of sid has lasted paymentTimeoutMs and nothing confirmed it
Overdue(sid) ==
    /\ handlers[sid].pc \in {"poll", "sleep"}
    /\ handlers[sid].batchIdx \notin sessions[sid].paid
    /\ now - handlers[sid].start >= provider.paymentTimeoutMs

\* C17 as stated: after an invoice no content is written until the invoice
\* is confirmed by a proof or by the wallet, and a wait that has reached
\* paymentTimeoutMs unconfirmed never goes back to producing.
C17_GatedAndNothingAfterTimeout ==
    /\ ContentOnlyWhenPaid
    /\ PaidOnlyWhenConfirmed
    /\ [][\A sid \in DOMAIN handlers :
            Overdue(sid) => handlers'[sid].pc # "next"]_vars

\* C17, amended: after an invoice no content is written until the invoice
\* is confirmed by a proof or by the wallet, and once the wait has ended
\* unconfirmed (paused was written) no content is written in the session.
C17_GatedAndNothingAfterPaused ==
    /\ ContentOnlyWhenPaid
    /\ PaidOnlyWhenConfirmed
    /\ [][\A sid \in DOMAIN sent :
            HasEvent(sid, "paused") => ~Emits(sid, "content")]_vars

C17_Witness ==
    \E sid \in DOMAIN sent :
        /\ HasEvent(sid, "paused")
        /\ \E i, j \in 1..Len(sent[sid]) :
              /\ i < j
              /\ sent[sid][i].event = "invoice"
              /\ sent[sid][j].event = "content"

\* ------------------------------------------------------- C18 max batches
HasDone(sid, reason) ==
    \E i \in 1..Len(sent[sid]) :
        sent[sid][i].event = "done" /\ sent[sid][i].reason = reason

\* never more than maxBatches content events, no invoice for a batch
\* beyond maxBatches, and with maxBatches = 1 no invoice at all
CappedAt(sid) ==
    /\ CountEvents(sid, "content") <= provider.maxBatches
    /\ \A i \in 1..Len(sent[sid]) :
          sent[sid][i].event = "invoice"
            => sent[sid][i].batchIndex <= provider.maxBatches
    /\ provider.maxBatches = 1 => ~HasEvent(sid, "invoice")

\* C18 as stated: the cap holds, and whenever batchIndex has reached
\* maxBatches a done event with reason max_batches has been written.
C18_MaxBatchesAlwaysEndsMaxBatches ==
    \A sid \in DOMAIN sessions :
        /\ CappedAt(sid)
        /\ sessions[sid].batchIndex >= provider.maxBatches
             => HasDone(sid, "max_batches")

\* C18, amended: the cap holds, and done with reason max_batches has been
\* written exactly when a full batch (tokensPerBatch tokens) has brought
\* batchIndex to maxBatches; when the last, partial batch of an exhausted
\* producer brings it there, the session ends without it.
C18_FullBatchAtCapEndsMaxBatches ==
    \A sid \in DOMAIN sessions :
        /\ CappedAt(sid)
        /\ HasDone(sid, "max_batches")
             <=> \E i \in 1..Len(sent[sid]) :
                    /\ sent[sid][i].event = "content"
                    /\ sent[sid][i].batchIndex = provider.maxBatches
                    /\ sent[sid][i].tokenCount = provider.tokensPerBatch

C18_Witness ==
    \E sid \in DOMAIN sessions :
        /\ provider.maxBatches = 2
        /\ CountEvents(sid, "content") = 2
        /\ HasEvent(sid, "invoice")
        /\ HasDone(sid, "max_batches")

\* ------------------------------------------------------------ C19 paused
\* C19: after paused was written the session is not closed and its
\* pendingPayment is still there.
C19_PausedSessionStaysOpen ==
    \A sid \in DOMAIN sessions :
        HasEvent(sid, "paused")
          => /\ ~sessions[sid].closed
             /\ sessions[sid].pendingPayment # <<>>

\* ---------------------------------------------------- C20 firstBatchFree
\* C20: a session served with firstBatchFree writes an invoice event only
\* when its batchIndex is 2 or more, so every invoice it has written is for
\* batch 3 or later.
C20_FirstBatchFreeDelaysInvoice ==
    /\ [][\A sid \in DOMAIN sent :
            (handlers[sid].firstBatchFree /\ Emits(sid, "invoice"))
              => sessions[sid].batchIndex >= 2]_vars
    /\ [](\A sid \in DOMAIN sent :
            handlers[sid].firstBatchFree
              => \A i \in 1..Len(sent[sid]) :
                    sent[sid][i].event = "invoice" => sent[sid][i].batchIndex >= 3)

C20_Witness ==
    \E sid \in DOMAIN sent :
        /\ handlers[sid].firstBatchFree
        /\ HasEvent(sid, "invoice")
        /\ sessions[sid].batchIndex = 2

\* ------------------------------------------------- C21 no double counting
\* never more sats counted than invoices were sent for
NeverOverCounted(sid) ==
    sessions[sid].totalSats
        <= provider.satsPerBatch * CountEvents(sid, "invoice")

\* C21: totalSats is satsPerBatch times the number of confirmed invoices:
\* outside the wait for a payment every batch in paid has been counted
\* exactly once, and totalSats never exceeds satsPerBatch times the number
\* of invoices sent.
C21_CountedExactlyOnce ==
    \A sid \in DOMAIN sessions :
        /\ NeverOverCounted(sid)
        /\ handlers[sid].pc \notin {"poll", "sleep"}
             => sessions[sid].totalSats
                  = provider.satsPerBatch * Cardinality(sessions[sid].paid)

\* what does hold: every counted batch is in paid, so nothing is counted
\* twice
NeverCountedTwice ==
    \A sid \in DOMAIN sessions :
        /\ NeverOverCounted(sid)
        /\ sessions[sid].totalSats
             <= provider.satsPerBatch * Cardinality(sessions[sid].paid)

\* ----------------------------------------------------- C22 proof accepted
\* the submission carries the preimage of the payment pending in sid
ProofIsForPending(sid, proof) ==
    /\ sid \in DOMAIN sessions
    /\ sessions[sid].pendingPayment # <<>>
    /\ proof[1] \in Preimages
    /\ <<"sha256", proof[1]>> = sessions[sid].pendingPayment[1].paymentHash

\* C22: a proof submission is answered 200 (batchUnlocked) exactly when the
\* session exists, a payment is pending and the hash of the submitted
\* preimage is the pending payment's hash; it then puts the pending batch
\* in paid and clears pendingPayment; every other submission leaves the
\* sessions (paid, pendingPayment, totalSats) as they were.
C22_AcceptedIffProofOfPending ==
    [][\A sid \in 1..MaxSessions, proof \in ProofInputs :
         HandlePayment(sid, proof)
           => IF ProofIsForPending(sid, proof)
              THEN /\ ret'.reply[1].status = 200
                   /\ sessions'[sid].paid = sessions[sid].paid
                        \cup {sessions[sid].pendingPayment[1].batchIndex}
                   /\ sessions'[sid].pendingPayment = <<>>
                   /\ sessions'[sid].totalSats = sessions[sid].totalSats
              ELSE /\ ret'.reply[1].status # 200
                   /\ sessions' = sessions]_vars

C22_Witness ==
    /\ ret.op = "_handlePayment"
    /\ ret.reply[1].status = 200
    /\ sessions[ret.id].paid = {3}
    /\ sessions[ret.id].pendingPayment = <<>>

\* -------------------------------------------------- C23 rejected proofs
\* C23: a submission for an unknown session is answered 'Unknown session',
\* one whose preimage does not hash to the pending payment's hash 'Invalid
\* preimage', one for a session with nothing pending 'No pending payment';
\* the three answers differ, and a rejection changes neither the session
\* nor the position of its producer loop nor what was sent.
C23_RejectionsAreDistinguished ==
    [][\A sid \in 1..MaxSessions, proof \in ProofInputs :
         (HandlePayment(sid, proof) /\ ret'.reply[1].status # 200)
           => /\ sid \notin DOMAIN sessions
                   => ret'.reply[1] = [status |-> 404, body |-> "Unknown session"]
              /\ (/\ sid \in DOMAIN sessions
                  /\ sessions[sid].pendingPayment # <<>>
                  /\ proof[1] \in Preimages)
                   => ret'.reply[1] = [status |-> 400, body |-> "Invalid preimage"]
              /\ (sid \in DOMAIN sessions /\ sessions[sid].pendingPayment = <<>>)
                   => ret'.reply[1] =
                        [status |-> 400,
                         body |-> "No pending payment or missing preimage"]
              /\ UNCHANGED <<sessions, handlers, sent, cleanups>>]_vars

C23_Witness ==
    /\ ret.op = "_handlePayment"
    /\ ret.reply[1].body = "Invalid preimage"
    /\ ret.id \in DOMAIN handlers
    /\ handlers[ret.id].pc \in {"poll", "sleep"}

\* ------------------------------------------------- C27 failures reported
\* the step in which the producer threw, or wallet.createInvoice rejected
\* (no payment was recorded as pending)
FailedStep(sid) ==
    \/ StreamEnd(sid) /\ handlers[sid].genThrows # <<>>
    \/ InvoiceDone(sid) /\ sessions'[sid].pendingPayment = <<>>

\* the failure that step met
FailureOf(sid) ==
    IF handlers[sid].pc = "next" THEN handlers[sid].genThrows
    ELSE <<"Error", "wallet error">>

\* the step appends one error event with a message, leaves the session
\* closed and the response without a done event
ReportsFailure(sid) ==
    /\ Len(sent'[sid]) = Len(sent[sid]) + 1
    /\ sent'[sid][Len(sent'[sid])].event = "error"
    /\ sent'[sid][Len(sent'[sid])].reason # Null
    /\ \A i \in 1..Len(sent'[sid]) : sent'[sid][i].event # "done"
    /\ sessions'[sid].closed

\* C27: when the producer throws, or the wallet fails while an invoice is
\* requested, the provider emits an error event that carries the failure
\* message, emits no done event for the session and closes it.
C27_FailureEmitsErrorNoDone ==
    [][\A sid \in 1..MaxSessions : FailedStep(sid) => ReportsFailure(sid)]_vars

\* what does hold: a failure that is an Error object is reported with its
\* message, and every failure closes the session without a done event
ErrorObjectsAreReported ==
    [][\A sid \in 1..MaxSessions :
         FailedStep(sid)
           => /\ FailureOf(sid)[1] = "Error"
                  => /\ ReportsFailure(sid)
                     /\ sent'[sid][Len(sent'[sid])].reason = FailureOf(sid)[2]
              /\ \A i \in 1..Len(sent'[sid]) : sent'[sid][i].event # "done"
              /\ sessions'[sid].closed]_vars

\* an invoice is only requested while no payment is pending
InvoiceOnlyWhenNothingPending ==
    \A sid \in DOMAIN handlers :
        handlers[sid].pc = "invoice" /\ sid \in DOMAIN sessions
          => sessions[sid].pendingPayment = <<>>

\* --------------------------------------------------- C26 sessions end
\* the handleRequest call of sid has run its finally block
Ended(sid) == sid \in DOMAIN handlers /\ handlers[sid].pc = "ended"

\* sid was closed and has been deleted from the session store
Removed(sid) == Ended(sid) /\ sid \notin DOMAIN sessions

\* every session that was started is closed in the end
EverySessionCloses ==
    \A sid \in 1..MaxSessions :
        (sid \in DOMAIN handlers) ~> Ended(sid)

\* finally leaves the session closed, in the store, with its delete timer set
ClosedByFinally ==
    [][\A sid \in DOMAIN handlers :
         (~Ended(sid) /\ Ended(sid)')
           => /\ sid \in DOMAIN sessions' /\ sessions'[sid].closed
              /\ sid \in DOMAIN cleanups' /\ cleanups'[sid] > now]_vars

\* nothing is sent for a closed session
NothingSentOnceClosed ==
    [][\A sid \in DOMAIN handlers :
         (Ended(sid) \/ (sid \in DOMAIN sessions /\ sessions[sid].closed))
           => sent'[sid] = sent[sid]]_vars

\* a session is open until its call has ended, and is in the store, closed,
\* as long as its delete timer has not fired; the timer never fires before
\* the grace window is over
FindableDuringGrace ==
    /\ [](\A sid \in DOMAIN handlers :
            /\ ~Ended(sid) => sid \in DOMAIN sessions /\ ~sessions[sid].closed
            /\ Ended(sid) => (sid \in DOMAIN sessions <=> sid \in DOMAIN cleanups)
            /\ Ended(sid) /\ sid \in DOMAIN sessions => sessions[sid].closed)
    /\ [][\A sid \in DOMAIN cleanups :
            SessionCleanup(sid) => now >= cleanups[sid]]_vars
    /\ [][\A sid \in DOMAIN cleanups, proof \in ProofInputs :
            HandlePayment(sid, proof) => ret'.reply[1].status # 404]_vars

\* a closed session is deleted in the end, stays deleted, and submissions
\* for it are answered 'Unknown session'
RemovedInTheEnd ==
    /\ \A sid \in 1..MaxSessions : Ended(sid) ~> Removed(sid)
    /\ [][\A sid \in 1..MaxSessions :
            Removed(sid)
              => /\ Removed(sid)'
                 /\ \A proof \in ProofInputs :
                      HandlePayment(sid, proof)
                        => ret'.reply[1] =
                             [status |-> 404, body |-> "Unknown session"]]_vars

StartsPaying == client.pc = "read" /\ client'.pc = "pay"

\* the wallet has paid the invoice the call was paying
PaymentSucceeded ==
    /\ client.pc = "pay"
    /\ Len(client'.paid) = Len(client.paid) + 1

\* spent against a limit: never above it, an invoice is paid only if it
\* fits, spent grows by the sats of an invoice whose payment succeeded and
\* by nothing else, and never goes down
SpentWithin(limit) ==
    /\ client.spent <= limit
    /\ StartsPaying => client.spent + client'.paying[1].sats <= limit
    /\ client'.spent # client.spent
         => /\ PaymentSucceeded
            /\ client'.spent = client.spent + client.paying[1].sats
            /\ client'.spent > client.spent

\* C24: in every state of a stream call spent <= maxSats, the limit the
\* caller gave; an invoice is paid only if spent + sats <= maxSats, spent
\* grows only by the sats of invoices whose payment succeeded, and never
\* decreases within the call.
C24_SpentNeverExceedsMaxSats ==
    [][client'.pc # "fetch" => SpentWithin(client.maxSats)]_vars

\* what does hold: the same against the budget of line 353, where a limit
\* of 0 counts as not given
SpentNeverExceedsBudget ==
    [][client'.pc # "fetch" => SpentWithin(client.budget)]_vars

\* the budget is the limit the caller gave unless that limit is 0
BudgetIsMaxSatsUnlessZero ==
    client.pc # "idle" /\ client.maxSats # 0 => client.budget = client.maxSats

\* -------------------------------------------- C28 client keeps consuming
\* the call handles the event e it has just read whole
Handles(e) ==
    /\ client.pc = "read"
    /\ client.pos <= Len(Response)
    /\ Response[client.pos] = e
    /\ client'.pos = client.pos + 1
    /\ client'.splits = client.splits

\* the call goes on reading where it was, with what it has yielded
GoesOnReading ==
    /\ client'.pc = "read"
    /\ client'.pos = client.pos
    /\ client'.yielded = client.yielded

\* C28: a payInvoice that rejects, a proof POST that fails and a proof the
\* provider rejects leave the call reading; it yields the tokens of every
\* content event it handles afterwards as before; it returns when it
\* handles done, throws the carried message when it handles error, and
\* does nothing when it handles paused.
C28_FailuresNeverAbortTheStream ==
    [][/\ (client.pc = "pay" /\ client' # client /\ client'.paid = client.paid)
            => GoesOnReading
       /\ (client.pc = "proof" /\ client' # client) => GoesOnReading
       /\ client.pc = "read"
            => \A e \in {Response[i] : i \in 1..Len(Response)} :
            Handles(e)
              => /\ e.event = "content"
                     => /\ client'.yielded = Append(client.yielded, e.batchIndex)
                        /\ client'.pc = "read"
                 /\ e.event = "done" => client'.pc = "returned"
                 /\ e.event = "error"
                     => /\ client'.pc = "failed"
                        /\ e.reason # Null => client'.err = e.reason
                 /\ e.event = "paused"
                     => client' = [client EXCEPT !.pos = @ + 1]]_vars

\* every invoice the call tried to pay failed or was not confirmed by its
\* proof, and the call still yielded all three batches and returned
C28_Witness ==
    /\ client.pc = "returned"
    /\ "Stream payment failed" \in client.logged
    /\ client.paid = <<>>
    /\ client.yielded = <<1, 2, 3>>

\* ------------------------------------------ C25 skipped invoice pauses
\* the session that serves the client's call
Serving == Len(sent)

\* the provider gave up waiting for the payment of batch b
PausedBefore(b) ==
    /\ Serving > 0
    /\ \E i \in 1..Len(sent[Serving]) :
          /\ sent[Serving][i].event = "paused"
          /\ sent[Serving][i].batchIndex = b - 1

\* the payment of batch b was confirmed to the provider
ConfirmedFor(b) ==
    Serving \in DOMAIN sessions /\ b \in sessions[Serving].paid

\* the client left the invoice of batch b unpaid because of its budget
SkippedForBudget(b) == client.autoPay /\ b \in client.skipped

\* the provider is waiting for the payment of batch b
Awaited(b) ==
    /\ Serving \in DOMAIN handlers
    /\ handlers[Serving].pc \in {"poll", "sleep"}
    /\ handlers[Serving].batchIdx = b

\* C25: when the client skips an invoice because paying it would exceed
\* its budget, the provider does not wait for that payment for ever: in the
\* end it emits paused for the batch, unless a payment for it is confirmed
\* by someone else; and the batch is not delivered unless its payment was
\* confirmed.
C25_SkippedInvoiceEndsInPaused ==
    /\ \A b \in 2..(MaxTokens + 1) :
          (SkippedForBudget(b) /\ Awaited(b))
             ~> (PausedBefore(b) \/ ConfirmedFor(b))
    /\ ContentOnlyWhenPaid

\* the client had paid batch 2, skipped the invoice of batch 3 for its
\* budget of 1, and the provider paused without delivering batch 3
C25_Witness ==
    /\ client.budget = 1 /\ client.spent = 1
    /\ SkippedForBudget(3)
    /\ PausedBefore(3)
    /\ \A i \in 1..Len(sent[Serving]) :
          sent[Serving][i].event = "content" => sent[Serving][i].batchIndex < 3

\* ------------------------------------------- C29 no await blocks forever
\* the provider's handleRequest is at the await named by pcs
ProviderAt(pcs) == \E sid \in DOMAIN handlers : handlers[sid].pc \in pcs

\* the awaits that end by a timeout of the wallet or of the provider:
\* the provider's invoice request and payment wait, the client's payment
TimedAwaitsReturn ==
    /\ ProviderAt({"invoice"}) ~> ~ProviderAt({"invoice"})
    /\ ProviderAt({"poll", "sleep"}) ~> ~ProviderAt({"poll", "sleep"})
    /\ (client.pc = "pay") ~> (client.pc # "pay")

\* C29: no operation that awaits the wallet or the network blocks for
\* ever: the provider's invoice request and payment wait and the client's
\* payment and proof submission return in the end, with a result or an
\* error, even if the other side never answers.
C29_NoAwaitBlocksForever ==
    /\ TimedAwaitsReturn
    /\ (client.pc = "proof") ~> (client.pc # "proof")

\* ------------------------------------------------- C30 replay protection
\* how many verify calls have returned valid:true for k1
TimesGranted(k1) ==
    Cardinality({i \in 1..Len(auth.granted) : auth.granted[i] = k1})

\* the step is a verify call that returned valid as given
VerifyReturns(valid) ==
    /\ ret'.op = "verify" /\ ret' # ret
    /\ ret'.reply[1].valid = valid

\* C30: for every challenge k1 at most one verify call returns valid:true;
\* verify returns valid:true only for a k1 that createChallenge issued, that
\* has not expired and was not used, with a signature of k1 that is valid
\* for the key; and a verify that fails never marks the challenge used.
C30_ChallengeGrantsAtMostOnce ==
    /\ [](\A k1 \in K1Inputs : TimesGranted(k1) <= 1)
    /\ [][\A k1 \in K1Inputs, sig \in SigInputs, key \in KeyInputs :
            Verify(k1, sig, key)
              => /\ VerifyReturns(TRUE)
                     => /\ k1 \in 1..auth.issued
                        /\ k1 \in DOMAIN auth.challenges
                        /\ ~auth.challenges[k1].used
                        /\ now - auth.challenges[k1].createdAt <= auth.ttl
                        /\ sig = <<"sig", k1, key>>
                        /\ auth'.challenges[k1].used
                 /\ VerifyReturns(FALSE)
                     => \A k \in DOMAIN auth'.challenges :
                          auth'.challenges[k].used = auth.challenges[k].used]_vars

\* a challenge was verified once, and the same k1, sig and key were then
\* refused as already used
C30_Witness ==
    /\ TimesGranted(1) = 1
    /\ ret.op = "verify" /\ ret.id = 1
    /\ ret.reply[1] = [valid |-> FALSE, error |-> "Challenge already used"]

\* the precondition that fund, release and refund test when they are called
Precondition(op, e) ==
    CASE op = "fund" -> e.state = CREATED
      [] op = "release" -> e.state \in {FUNDED, DELIVERED}
      [] op = "refund" -> e.state \notin {RELEASED, REFUNDED}
      [] OTHER -> TRUE

\* C31: the state precondition of fund, release and refund holds at the
\* moment their transition is applied: a call that resumes after its wallet
\* await and returns (having recorded its transition) finds the escrow in a
\* state in which the operation could have been called.
C31_PreconditionHoldsWhenApplied ==
    [][(/\ ret'.phase = "resume"
        /\ ret'.kind = "return"
        /\ ret'.op \in {"fund", "release", "refund"})
          => Precondition(ret'.op, escrows[ret'.id])]_vars

\* the step moves escrow id to FUNDED
BecomesFunded(id) ==
    /\ id \in DOMAIN escrows
    /\ Len(escrows'[id].history) = Len(escrows[id].history) + 1
    /\ escrows'[id].history[Len(escrows'[id].history)].to = FUNDED

\* the step is the continuation of fund(id) after the wallet answered paid
AfterPaid(id) ==
    /\ ret'.op = "fund" /\ ret'.id = id /\ ret'.phase = "resume"
    /\ ret'.reply = <<[paid |-> TRUE]>>
    /\ \E p \in BagToSet(pendingFund) : p.id = id

FundedAtIffFunded ==
    \A id \in DOMAIN escrows :
        escrows[id].fundedAt # NullAt <=> HasEntered(id, FUNDED)

\* C32: with autoDetect enabled an escrow becomes FUNDED only in the step in
\* which fund resumes from a wallet.waitForPayment call, made for the
\* escrow's paymentHash, that answered paid = true; and fundedAt is non-null
\* exactly for the escrows whose history holds a transition to FUNDED.
C32_FundedOnlyAfterPaid ==
    /\ [][\A id \in Ids : BecomesFunded(id) => AfterPaid(id)]_vars
    /\ [][(ret'.op = "fund" /\ ret'.kind = "await")
            => ret'.call[1].target = escrows[ret'.id].paymentHash]_vars
    /\ []FundedAtIffFunded

\* what holds: the same for the escrows whose invoice came with a payment hash
FundedOnlyAfterPaidGivenHash ==
    /\ [][\A id \in Ids :
            (BecomesFunded(id) /\ escrows[id].paymentHash # <<>>) => AfterPaid(id)]_vars
    /\ [][(ret'.op = "fund" /\ ret'.kind = "await")
            => ret'.call[1].target = escrows[ret'.id].paymentHash]_vars
    /\ []FundedAtIffFunded

IsTerminalEvent(e) == e.event \in {"done", "error"}

\* the events of session sid in which the producer was cut short: a done
\* with reason max_batches, or paused
CutShort(e) ==
    \/ e.event = "done" /\ e.reason = "max_batches"
    \/ e.event = "paused"

\* C33: each session's event sequence holds at most one terminal event
\* (done or error), which is its last event; and done with reason complete
\* is sent only when the producer was exhausted, never after a done with
\* reason max_batches or a paused event.
C33_OneTerminalEventAtTheEnd ==
    \A sid \in DOMAIN sent :
        /\ \A i \in 1..Len(sent[sid]) :
              IsTerminalEvent(sent[sid][i]) => i = Len(sent[sid])
        /\ \A i \in 1..Len(sent[sid]) :
              (sent[sid][i].event = "done" /\ sent[sid][i].reason = "complete")
                => /\ handlers[sid].gen = 0
                   /\ \A j \in 1..(i - 1) : ~CutShort(sent[sid][j])

\* what holds: nothing follows an error event or a done with reason
\* complete, and a session has at most one of each
LastEventIsFinal ==
    \A sid \in DOMAIN sent :
        \A i \in 1..Len(sent[sid]) :
            (\/ sent[sid][i].event = "error"
             \/ sent[sid][i].event = "done" /\ sent[sid][i].reason = "complete")
              => i = Len(sent[sid])

\* session sid is in its payment wait and the proof for the awaited batch
\* has been accepted
ProofAcceptedInWait(sid) ==
    /\ sid \in DOMAIN sessions
    /\ handlers[sid].pc \in {"poll", "sleep"}
    /\ handlers[sid].batchIdx \in sessions[sid].paid

\* the step ends the payment wait of sid
WaitEnds(sid) == handlers'[sid].pc \notin {"poll", "sleep"}

\* the step treats the awaited batch as paid
TreatsAsPaid(sid) ==
    /\ sessions'[sid].totalSats = sessions[sid].totalSats + provider.satsPerBatch
    /\ ~Emits(sid, "paused")
    /\ handlers'[sid].pc = "next"

\* C34: when the proof for the pending payment was accepted before paused
\* was emitted for that batch, the payment wait ends with the batch treated
\* as paid: totalSats grows by satsPerBatch, no paused is emitted and the
\* provider goes on producing, wherever in the polling loop the proof landed.
C34_AcceptedProofUnlocksBatch ==
    [][\A sid \in DOMAIN handlers :
          (ProofAcceptedInWait(sid) /\ WaitEnds(sid)) => TreatsAsPaid(sid)]_vars

\* what holds: the same when the loop tests its condition before
\* paymentTimeoutMs has elapsed
AcceptedProofUnlocksBeforeTimeout ==
    [][\A sid \in DOMAIN handlers :
          (/\ ProofAcceptedInWait(sid) /\ WaitEnds(sid)
           /\ now - handlers[sid].start < provider.paymentTimeoutMs)
            => TreatsAsPaid(sid)]_vars

\* the step is a wallet poll of session sid that failed
PollFailed(sid) ==
    /\ ret'.op = "_waitForPayment" /\ ret'.id = sid /\ ret'.kind = "throw"

\* a failed poll writes nothing, confirms nothing and the loop goes on
PollErrorIsSilent ==
    [][\A sid \in DOMAIN handlers :
          PollFailed(sid)
            => /\ sent'[sid] = sent[sid]
               /\ sessions'[sid] = sessions[sid]
               /\ handlers'[sid].pc = "sleep"]_vars

\* paused is emitted only once paymentTimeoutMs has elapsed
PausedOnlyAtTimeout ==
    [][\A sid \in DOMAIN handlers :
          Emits(sid, "paused")
            => now - handlers[sid].start >= provider.paymentTimeoutMs]_vars

\* a payment wait ends: in paused, or with the batch unlocked by a proof
WaitEndsPausedOrPaid ==
    \A sid \in 1..MaxSessions :
        (sid \in DOMAIN handlers /\ handlers[sid].pc \in {"poll", "sleep"})
          ~> (sid \in DOMAIN handlers /\ handlers[sid].pc \notin {"poll", "sleep"})

\* C35: with a wallet whose waitForPayment is unsupported or throws on every
\* poll, a failed poll sends no event and confirms nothing, the loop runs
\* until paymentTimeoutMs, a proof accepted during the wait unlocks the
\* batch, and a wait without one ends in paused.
C35_ProofOnlyWaitRunsToTimeout ==
    /\ PollErrorIsSilent
    /\ PausedOnlyAtTimeout
    /\ WaitEndsPausedOrPaid
    /\ [][\A sid \in DOMAIN handlers :
            (handlers[sid].pc \in {"poll", "sleep"} /\ WaitEnds(sid))
              => IF handlers[sid].batchIdx \in sessions[sid].paid
                 THEN TreatsAsPaid(sid)
                 ELSE Emits(sid, "paused") /\ ~HasEvent(sid, "error")]_vars

\* what holds: everything but the unlocking by a proof accepted during the
\* last sleep of the wait
ProofOnlyWaitEndsAtTimeout ==
    /\ PollErrorIsSilent
    /\ PausedOnlyAtTimeout
    /\ WaitEndsPausedOrPaid
    /\ [][\A sid \in DOMAIN handlers :
            (handlers[sid].pc \in {"poll", "sleep"} /\ WaitEnds(sid))
              => IF /\ handlers[sid].batchIdx \in sessions[sid].paid
                    /\ now - handlers[sid].start < provider.paymentTimeoutMs
                 THEN TreatsAsPaid(sid)
                 ELSE Emits(sid, "paused") /\ ~HasEvent(sid, "error")]_vars

\* the content events of session sid among its first n events
ContentsUpTo(sid, n) ==
    SelectSeq(SubSeq(sent[sid], 1, n), LAMBDA e : e.event = "content")

RECURSIVE SumTokenCount(_)
SumTokenCount(events) ==
    IF events = <<>> THEN 0
    ELSE Head(events).tokenCount + SumTokenCount(Tail(events))

\* C36: the content events of a session carry batchIndex 1, 2, 3, ...; every
\* invoice event carries the batchIndex of the last content event before it
\* plus 1; every content event but the last holds exactly tokensPerBatch
\* tokens (the last from 1 to tokensPerBatch); and a done event reports as
\* totalBatches and totalTokens the number of content events and the sum of
\* their tokenCount.
C36_StreamAccounting ==
    \A sid \in DOMAIN sent :
        LET contents == ContentsUpTo(sid, Len(sent[sid])) IN
        /\ \A i \in 1..Len(contents) :
              /\ contents[i].batchIndex = i
              /\ contents[i].tokenCount \in 1..provider.tokensPerBatch
              /\ i < Len(contents) => contents[i].tokenCount = provider.tokensPerBatch
        /\ \A k \in 1..Len(sent[sid]) :
              /\ sent[sid][k].event = "invoice"
                   => sent[sid][k].batchIndex = Len(ContentsUpTo(sid, k)) + 1
              /\ sent[sid][k].event = "done"
                   => /\ sent[sid][k].batchIndex = Len(ContentsUpTo(sid, k))
                      /\ sent[sid][k].totalTokens = SumTokenCount(ContentsUpTo(sid, k))

\* a finished session: two content events, the second one partial, an
\* invoice between them and the totals in done
C36_Witness ==
    \E sid \in DOMAIN sent :
        LET contents == ContentsUpTo(sid, Len(sent[sid])) IN
        /\ Len(contents) = 2
        /\ contents[2].tokenCount < provider.tokensPerBatch
        /\ HasEvent(sid, "invoice")
        /\ HasDone(sid, "complete")
        /\ sent[sid][Len(sent[sid])].totalTokens = 3

\* the client's read position moves past event e of the response
ReadsPast(e) ==
    /\ client.pc = "read"
    /\ client'.pos = client.pos + 1
    /\ e = Response[client.pos]

\* what the switch does with event e
Handled(e) ==
    /\ e.event = "content" => client'.yielded = Append(client.yielded, e.batchIndex)
    /\ e.event = "invoice" => client'.pc = "pay" \/ e.batchIndex \in client'.skipped
    /\ e.event = "done" => client'.pc = "returned"
    /\ e.event = "error" => client'.pc = "failed"

\* the batches yielded are those of the content events read so far, in order
YieldedAllRead ==
    client.pos >= 1
      => client.yielded
           = [i \in 1..Len(ContentsUpTo(Len(sent), client.pos - 1)) |->
                 ContentsUpTo(Len(sent), client.pos - 1)[i].batchIndex]

\* C37: however the byte stream is split into reads, the client yields the
\* tokens of every content event it has read exactly once and in order, and
\* every invoice, done and error event it reads is handled.
C37_EveryEventReadIsHandled ==
    /\ []YieldedAllRead
    /\ [][\A e \in {Response[i] : i \in 1..(IF client.pc = "read" THEN Len(Response) ELSE 0)} :
            ReadsPast(e) => Handled(e)]_vars

\* what holds: the same for the events whose lines arrive in one read
WholeEventsAreHandled ==
    [][\A e \in {Response[i] : i \in 1..(IF client.pc = "read" THEN Len(Response) ELSE 0)} :
          (ReadsPast(e) /\ client'.splits = client.splits) => Handled(e)]_vars

\* the sats that left the client's wallet in this call: the amounts of the
\* invoices whose payment succeeded
RECURSIVE AmountPaid(_)
AmountPaid(paid) ==
    IF paid = <<>> THEN 0
    ELSE amountOf(Head(paid).invoice) + AmountPaid(Tail(paid))

\* C38: the amount the client's wallet pays in one stream call, the sum of
\* the amounts of the invoices it paid, never exceeds maxSats, whatever sats
\* value the invoice events declared.
C38_AmountPaidWithinMaxSats == AmountPaid(client.paid) <= client.maxSats

\* what holds: the limit is kept when every invoice paid was declared at
\* its amount
HonestlyDeclaredWithinMaxSats ==
    (\A i \in 1..Len(client.paid) :
        client.paid[i].sats = amountOf(client.paid[i].invoice))
      => AmountPaid(client.paid) <= client.maxSats

\* the step asks the wallet to pay out for an escrow
IssuesPayout ==
    /\ ret'.kind = "await"
    /\ ret'.call[1].method \in {"payInvoice", "payAddress"}

\* C39: the engine asks the wallet for a payout (payInvoice or payAddress,
\* in release or refund) only for an escrow whose history holds a
\* transition to FUNDED.
C39_NoPayoutWithoutFunding ==
    [][IssuesPayout => HasEntered(ret'.id, FUNDED)]_vars

\* what holds: release pays out only for an escrow that was funded
ReleasePaysOnlyFunded ==
    [][(IssuesPayout /\ ret'.op = "release") => HasEntered(ret'.id, FUNDED)]_vars

\* the step in which the wallet has paid out for escrow id: release or
\* refund resumes from its wallet call with the payment made
PayoutMade(id) ==
    /\ ret'.phase = "resume" /\ ret'.kind = "return"
    /\ ret'.op \in {"release", "refund"}
    /\ ret'.id = id

\* a payout was made for escrow id before: it was released, or refunded to
\* an address
PaidOutBefore(id) ==
    \/ escrows[id].releasedAt # NullAt
    \/ escrows[id].refundedAt # NullAt /\ escrows[id].refundAddress # Null

\* C40: over any interleaving of release and refund calls the wallet makes
\* at most one payout for an escrow: no payout is made for an escrow for
\* which one was made before.
C40_AtMostOnePayout ==
    [][\A id \in DOMAIN escrows : PayoutMade(id) => ~PaidOutBefore(id)]_vars

====
